---- MODULE Spec2Model ----
(***************************************************************************)
(* Verification model of the BacklogAI scoring-and-revision pipeline:      *)
(*   backend/app/services/prioritization_engine.py                         *)
(*   backend/app/services/quality_engine.py                                *)
(*   backend/app/services/story_engine.py                                  *)
(*   backend/app/main.py  (generate_backlog_item_v2 and its helpers)       *)
(*                                                                         *)
(* Numbers are fixed point.  Pillar values, signals, multipliers and       *)
(* confidences are integers in hundredths (7.99 is 799); priority and      *)
(* quality scores are integers in tenths (80.0 is 800) unless a comment    *)
(* says otherwise.  Python's round(x, n) is RoundDiv (round half to even   *)
(* on the exact quotient).  Texts are strings, read character by           *)
(* character, so that strip(), lower(), split() and the substring test     *)
(* `in` are computed as the code computes them.                            *)
(***************************************************************************)
EXTENDS Integers, Sequences, FiniteSets, TLC

VARIABLES
    p_pillar_scores,   \* calculate_priority*: the pillar mapping passed in
    p_signals,         \* calculate_priority_v2: demand, competitor, effort, multiplier
    p_result,          \* [op, out]: the call made and what it returned (op "none" before)
    q_input,           \* evaluate_story_v2: the arguments of the call
    q_result,          \* [op, out]: what evaluate_story_v2 returned (op "none" before)
    m_draft,           \* _safe_merge_revision: the draft dict object
    m_revised,         \* _safe_merge_revision: the revised dict object
    m_result,          \* [op, args, merged]: the dicts as passed in and the dict returned
    r_pc,              \* generate_backlog_item_v2: where the request is
    r_item,            \* the BacklogItemGenerateV2Request
    r_client,          \* story_engine.client is set (OPENAI_API_KEY is configured)
    r_research_inputs, \* what fetch_research_inputs returned
    r_generated_content, \* the local generated_content: the current draft
    r_evaluation,      \* the local evaluation
    r_warnings,        \* the locals warning_messages and warning_details
    r_should_revise,   \* the local should_revise
    r_revise_calls,    \* the calls of story_engine.revise_story_v2 made so far
    r_response,        \* the BacklogItemGenerateV2Response returned
    r_first_draft,     \* history: what generate_story_v2 returned
    r_first_evaluation, \* history: the evaluation of line 539
    r_revised_payload, \* history: what the LLM answered to the revision prompt
    r_draft_payload,   \* history: what the LLM answered to the draft prompt
    r_max_retries,     \* story_engine.max_retries: int(OPENAI_MAX_RETRIES)
    r_attempt,         \* _call_openai_json: the local attempt of the call in progress
    r_llm_calls,       \* history: the _call_openai_json calls returned: [call, attempts, ok] each
    h_input,           \* a helper of main.py: [fn, ...] the function and its arguments
    h_result,          \* [op, out]: the helper called and what it returned (op "none" before)
    c_log,             \* the calls made on the two engines so far: [fn, args, out] each
    s_sessions,        \* the slack_sessions table: id -> [status, jira_key, jira_url]
    s_reqs,            \* the Slack requests and tasks in flight: id -> [pc, and its locals]
    s_jira_calls,      \* history: the jira_service.create_issue_v2 calls made
    s_posts,           \* history: the messages posted to Slack
    ms_now,            \* time.time(), in units of MsTick seconds
    ms_search_timestamps, \* MarketResearchService._search_timestamps
    ms_calls,          \* the fetch_research_inputs calls in flight: id -> [pc, and its locals]
    ms_requests        \* history: the SerpAPI requests issued: [at, ok] each

prioVars == <<p_pillar_scores, p_signals, p_result>>

qualVars == <<q_input, q_result>>

mergeVars == <<m_draft, m_revised, m_result>>

reqVars ==
    <<r_pc, r_item, r_client, r_research_inputs, r_generated_content,
      r_evaluation, r_warnings, r_should_revise, r_revise_calls, r_response,
      r_first_draft, r_first_evaluation, r_revised_payload,
      r_draft_payload, r_max_retries, r_attempt, r_llm_calls>>

helpVars == <<h_input, h_result, c_log>>

slackVars == <<s_sessions, s_reqs, s_jira_calls, s_posts>>

researchVars == <<ms_now, ms_search_timestamps, ms_calls, ms_requests>>

svcVars == <<s_sessions, s_reqs, s_jira_calls, s_posts,
             ms_now, ms_search_timestamps, ms_calls, ms_requests>>

vars == <<p_pillar_scores, p_signals, p_result, q_input, q_result,
          m_draft, m_revised, m_result,
          r_pc, r_item, r_client, r_research_inputs, r_generated_content,
          r_evaluation, r_warnings, r_should_revise, r_revise_calls, r_response,
          r_first_draft, r_first_evaluation, r_revised_payload,
          r_draft_payload, r_max_retries, r_attempt, r_llm_calls,
          h_input, h_result, c_log,
          s_sessions, s_reqs, s_jira_calls, s_posts,
          ms_now, ms_search_timestamps, ms_calls, ms_requests>>

\* The variables of a component no call is made on
PriorityIdle ==
    /\ p_pillar_scores = "none"
    /\ p_signals = "none"
    /\ p_result = [op |-> "none"]

QualityIdle ==
    /\ q_input = "none"
    /\ q_result = [op |-> "none"]

MergeIdle ==
    /\ m_draft = "none"
    /\ m_revised = "none"
    /\ m_result = [op |-> "none"]

HelperIdle ==
    /\ h_input = "none"
    /\ h_result = [op |-> "none"]
    /\ c_log = <<>>

SlackIdle ==
    /\ s_sessions = "none"
    /\ s_reqs = "none"
    /\ s_jira_calls = <<>>
    /\ s_posts = <<>>

ResearchIdle ==
    /\ ms_now = 0
    /\ ms_search_timestamps = <<>>
    /\ ms_calls = "none"
    /\ ms_requests = <<>>

ServicesIdle == SlackIdle /\ ResearchIdle

\* The value of a local that is not assigned yet
Unset == [t |-> "unset"]

RequestIdle ==
    /\ r_pc = "idle"
    /\ r_item = Unset
    /\ r_client = FALSE
    /\ r_research_inputs = Unset
    /\ r_generated_content = Unset
    /\ r_evaluation = Unset
    /\ r_warnings = Unset
    /\ r_should_revise = FALSE
    /\ r_revise_calls = 0
    /\ r_response = Unset
    /\ r_first_draft = Unset
    /\ r_first_evaluation = Unset
    /\ r_revised_payload = Unset
    /\ r_draft_payload = Unset
    /\ r_max_retries = 0
    /\ r_attempt = 0
    /\ r_llm_calls = <<>>

----------------------------------------------------------------------------
(* Arithmetic helpers *)

Min(a, b) == IF a <= b THEN a ELSE b

Max(a, b) == IF a >= b THEN a ELSE b

\* max(lo, min(hi, x))
Clamp(x, lo, hi) == Max(lo, Min(hi, x))

\* round(n / d) to the nearest integer, ties to even; d > 0
RoundDiv(n, d) ==
    LET q == n \div d
        r == n % d
    IN  IF 2 * r < d THEN q
        ELSE IF 2 * r > d THEN q + 1
        ELSE IF q % 2 = 0 THEN q ELSE q + 1

----------------------------------------------------------------------------
(* Text helpers: Python's str methods on TLA+ strings *)

UpperLetters == "ABCDEFGHIJKLMNOPQRSTUVWXYZ"

LowerLetters == "abcdefghijklmnopqrstuvwxyz"

\* The character at position i
CharAt(s, i) == SubSeq(s, i, i)

\* Upper-case letter -> lower-case letter
LowerMap ==
    [c \in {CharAt(UpperLetters, i) : i \in 1..26} |->
        CharAt(LowerLetters, CHOOSE i \in 1..26 : CharAt(UpperLetters, i) = c)]

\* str.lower() of one character
LowerChar(c) == IF c \in DOMAIN LowerMap THEN LowerMap[c] ELSE c

\* str.lower()
RECURSIVE Lower(_)
Lower(s) ==
    IF Len(s) <= 1 THEN LowerChar(s)
    ELSE LET h == Len(s) \div 2
         IN  Lower(SubSeq(s, 1, h)) \o Lower(SubSeq(s, h + 1, Len(s)))

\* Whitespace as str.strip() and str.split() see it
IsSpace(c) == c = " "

RECURSIVE LStrip(_)
LStrip(s) ==
    IF s # "" /\ IsSpace(CharAt(s, 1)) THEN LStrip(SubSeq(s, 2, Len(s))) ELSE s

RECURSIVE RStrip(_)
RStrip(s) ==
    IF s # "" /\ IsSpace(CharAt(s, Len(s))) THEN RStrip(SubSeq(s, 1, Len(s) - 1)) ELSE s

\* str.strip()
Strip(s) == RStrip(LStrip(s))

\* sub in s
Contains(s, sub) ==
    \E i \in 0..(Len(s) - Len(sub)) : SubSeq(s, i + 1, i + Len(sub)) = sub

\* any(term in s for term in terms)
ContainsAny(s, terms) == \E t \in terms : Contains(s, t)

\* [item.strip() for item in seq if item and item.strip()]
RECURSIVE StripNonBlank(_)
StripNonBlank(seq) ==
    IF seq = <<>> THEN <<>>
    ELSE (IF Strip(Head(seq)) # "" THEN <<Strip(Head(seq))>> ELSE <<>>)
         \o StripNonBlank(Tail(seq))

\* seq[:n] of a list, s[:n] of a text
Take(seq, n) == SubSeq(seq, 1, Min(n, Len(seq)))

\* The lower-case letter -> upper-case letter
UpperMap ==
    [c \in {CharAt(LowerLetters, i) : i \in 1..26} |->
        CharAt(UpperLetters, CHOOSE i \in 1..26 : CharAt(LowerLetters, i) = c)]

\* c.islower() of one character
IsLowerChar(c) == c \in DOMAIN UpperMap

\* str.upper() of one character
UpperChar(c) == IF c \in DOMAIN UpperMap THEN UpperMap[c] ELSE c

\* The elements of a finite set of integers in increasing order
RECURSIVE Sorted(_)
Sorted(S) ==
    IF S = {} THEN <<>>
    ELSE LET lo == CHOOSE x \in S : \A y \in S : x <= y
         IN  <<lo>> \o Sorted(S \ {lo})

\* The maximal runs of characters of s that are not in seps, in order:
\* s.split() for seps = {" "}, and the non-empty pieces of s.split(sep)
Runs(s, seps) ==
    LET isSep(i) == CharAt(s, i) \in seps
        starts == {i \in 1..Len(s) : ~isSep(i) /\ (i = 1 \/ isSep(i - 1))}
        endOf(i) == CHOOSE j \in i..Len(s) :
                        /\ \A k \in i..j : ~isSep(k)
                        /\ (j = Len(s) \/ isSep(j + 1))
        order == Sorted(starts)
    IN  [n \in 1..Len(order) |-> SubSeq(s, order[n], endOf(order[n]))]

\* str.split()
Words(s) == Runs(s, {" "})

\* sep.join(parts)
RECURSIVE Join(_, _)
Join(parts, sep) ==
    IF parts = <<>> THEN ""
    ELSE IF Len(parts) = 1 THEN parts[1]
    ELSE parts[1] \o sep \o Join(Tail(parts), sep)

\* s.strip(chars)
RECURSIVE StripChars(_, _)
StripChars(s, chars) ==
    IF s # "" /\ CharAt(s, 1) \in chars THEN StripChars(SubSeq(s, 2, Len(s)), chars)
    ELSE IF s # "" /\ CharAt(s, Len(s)) \in chars
         THEN StripChars(SubSeq(s, 1, Len(s) - 1), chars)
    ELSE s

\* str(n) of an integer n >= 0
RECURSIVE IntText(_)
IntText(n) ==
    IF n < 10 THEN CharAt("0123456789", n + 1)
    ELSE IntText(n \div 10) \o CharAt("0123456789", (n % 10) + 1)

\* s.replace(old, new), old not empty
RECURSIVE Replace(_, _, _)
Replace(s, old, new) ==
    IF Len(s) < Len(old) THEN s
    ELSE IF SubSeq(s, 1, Len(old)) = old
         THEN new \o Replace(SubSeq(s, Len(old) + 1, Len(s)), old, new)
    ELSE CharAt(s, 1) \o Replace(SubSeq(s, 2, Len(s)), old, new)

----------------------------------------------------------------------------
(* prioritization_engine.py *)

PillarKeys ==
    {"user_value", "commercial_impact", "strategic_horizon",
     "competitive_positioning", "technical_reality"}

\* pillar_scores.get(key, 5.0), in hundredths
PillarGet(scores, key) == IF key \in DOMAIN scores THEN scores[key] ELSE 500

\* Mutant of WeightedSum: strategic_horizon weighs 2 instead of 1.5
WeightedSumHeavyStrategy(scores) ==
      4 * PillarGet(scores, "user_value")
    + 4 * PillarGet(scores, "commercial_impact")
    + 4 * PillarGet(scores, "strategic_horizon")
    + 3 * PillarGet(scores, "technical_reality")
    + 2 * PillarGet(scores, "competitive_positioning")

\* weighted_sum * 200: (uv*2 + ci*2 + sh*1.5 + tr*1.5 + cp*1) with the
\* pillars in hundredths and the weights doubled.  final_score (unrounded)
\* is WeightedSum / 160, since total_weight = 8 and the scale is 10.
WeightedSum(scores) ==
      4 * PillarGet(scores, "user_value")
    + 4 * PillarGet(scores, "commercial_impact")
    + 3 * PillarGet(scores, "strategic_horizon")
    + 3 * PillarGet(scores, "technical_reality")
    + 2 * PillarGet(scores, "competitive_positioning")

\* The MoSCoW classification of calculate_priority: it tests the unrounded
\* final_score (w / 160) against 80, 60 and 40.
MoscowOfUnrounded(w) ==
    IF w >= 80 * 160 THEN "MUST_HAVE"
    ELSE IF w >= 60 * 160 THEN "SHOULD_HAVE"
    ELSE IF w >= 40 * 160 THEN "COULD_HAVE"
    ELSE "WONT_HAVE"

\* calculate_priority: (round(final_score, 1) in tenths, priority)
calculate_priority(scores) ==
    LET w == WeightedSum(scores)
    IN  [score |-> RoundDiv(w, 16), priority |-> MoscowOfUnrounded(w)]

\* The threshold rows of calculate_priority_v2, on the rounded final score
\* (tenths).
BandRow(final_score) ==
    IF final_score >= 800 THEN
        [priority_level |-> "MUST_HAVE", priority_band |-> "VERY_HIGH", priority_text |-> "Very High"]
    ELSE IF final_score >= 600 THEN
        [priority_level |-> "SHOULD_HAVE", priority_band |-> "HIGH", priority_text |-> "High"]
    ELSE IF final_score >= 400 THEN
        [priority_level |-> "COULD_HAVE", priority_band |-> "MEDIUM", priority_text |-> "Medium"]
    ELSE
        [priority_level |-> "WONT_HAVE", priority_band |-> "LOW", priority_text |-> "Low"]

\* Mutant of ClampMultiplier: the multiplier is used as passed in
ClampMultiplierMissing(evidence_multiplier) == evidence_multiplier

\* multiplier = max(0.85, min(1.15, evidence_multiplier)), hundredths
ClampMultiplier(evidence_multiplier) == Clamp(evidence_multiplier, 85, 115)

\* max(0.0, min(1.0, signal)), hundredths
ClampSignal(signal) == Clamp(signal, 0, 100)

\* confidence = round(max(0.0, min(1.0, (multiplier - 0.8) / 0.35)), 2)
Confidence(multiplier) == RoundDiv(Clamp(100 * (multiplier - 80), 0, 3500), 35)

\* Mutant of FinalScore: the adjusted score has no floor at 0
FinalScoreNoFloor(base_score, demand, competitor, effort, multiplier) ==
    RoundDiv(Min((10 * base_score + demand + competitor - effort) * multiplier, 1000000),
             1000)

\* Mutant of FinalScore: the effort component is added
FinalScoreAddsEffort(base_score, demand, competitor, effort, multiplier) ==
    RoundDiv(Clamp((10 * base_score + demand + competitor + effort) * multiplier,
                   0, 1000000), 1000)

\* final_score = round(max(0.0, min(100.0, adjusted_score)), 1), tenths.
\* adjusted_score * 1000 = (10*base + demand + competitor - effort) * multiplier
\* with base in tenths and the components and the multiplier in hundredths.
FinalScore(base_score, demand, competitor, effort, multiplier) ==
    RoundDiv(Clamp((10 * base_score + demand + competitor - effort) * multiplier,
                   0, 1000000), 1000)

calculate_priority_v2(scores, user_demand_signal, competitor_pressure_signal, effort_penalty, evidence_multiplier) ==
    LET base_score == calculate_priority(scores).score
        demand_component == ClampSignal(user_demand_signal) * 8
        competitor_component == ClampSignal(competitor_pressure_signal) * 7
        effort_component == ClampSignal(effort_penalty) * 12
        multiplier == ClampMultiplier(evidence_multiplier)
        final_score == FinalScore(base_score, demand_component,
                                  competitor_component, effort_component, multiplier)
        row == BandRow(final_score)
    IN  [score |-> final_score,
         priority_level |-> row.priority_level,
         priority_band |-> row.priority_band,
         priority_text |-> row.priority_text,
         confidence |-> Confidence(multiplier),
         breakdown |->
            [base_pillar_score |-> base_score,
             user_demand_signal |-> demand_component,
             competitor_pressure_signal |-> competitor_component,
             effort_penalty |-> effort_component,
             evidence_multiplier |-> multiplier,
             final_score |-> final_score]]

----------------------------------------------------------------------------
(* Inputs of the prioritization specification *)

\* Pillar values in hundredths: below 0, two neighbours around 8.0, above 10
PillarValues == {-300, 799, 800, 1300}

\* An unknown key a caller may pass
UnknownKey == "unknown_pillar"

\* Every mapping over a subset of the five keys (missing keys included),
\* with or without an unknown key
PillarMappings ==
    UNION {[ks -> PillarValues] : ks \in SUBSET PillarKeys}

PillarInputs ==
    PillarMappings \cup
    {[k \in {UnknownKey} |-> 800], [k \in {UnknownKey, "user_value"} |-> 1300],
     [k \in PillarKeys |-> 900], [k \in PillarKeys |-> 100]}

\* Signals in hundredths: below 0, two inside [0,1], above 1
SignalValues == {-50, 35, 80, 150}

\* Multipliers in hundredths: below 0.85, inside, above 1.15
MultiplierValues == {50, 105, 130}

SignalInputs ==
    [demand : SignalValues, competitor : SignalValues,
     effort : SignalValues, multiplier : MultiplierValues]

PriorityInit ==
    /\ p_pillar_scores \in PillarInputs
    /\ p_signals = "none"
    /\ p_result = [op |-> "none"]
    /\ QualityIdle
    /\ MergeIdle
    /\ RequestIdle
    /\ ServicesIdle
    /\ HelperIdle

\* A call of PrioritizationEngine.calculate_priority
CalculatePriority ==
    /\ p_result.op = "none"
    /\ p_result' = [op |-> "v1", out |-> calculate_priority(p_pillar_scores)]
    /\ UNCHANGED <<p_pillar_scores, p_signals, qualVars, mergeVars, reqVars, helpVars, svcVars>>

\* A call of PrioritizationEngine.calculate_priority_v2
CalculatePriorityV2 ==
    /\ p_result.op = "none"
    /\ \E s \in SignalInputs :
        /\ p_signals' = s
        /\ p_result' = [op |-> "v2",
                        out |-> calculate_priority_v2(p_pillar_scores, s.demand,
                                    s.competitor, s.effort, s.multiplier)]
    /\ UNCHANGED <<p_pillar_scores, qualVars, mergeVars, reqVars, helpVars, svcVars>>

PriorityNext == CalculatePriority \/ CalculatePriorityV2

SpecPriority == PriorityInit /\ [][PriorityNext]_vars

----------------------------------------------------------------------------
(* Claims about the prioritization engine, checked under SpecPriority *)

\* C6: for any signals and multiplier passed to calculate_priority_v2
\* (signals outside [0,1] and multipliers outside [0.85,1.15] included) the
\* final score lies in [0,100], the confidence equals
\* round(clamp((m - 0.8)/0.35, 0, 1), 2) with m the multiplier clamped to
\* [0.85,1.15] and lies in [0,1], and the breakdown's demand, competitor,
\* effort and multiplier entries lie in [0,8], [0,7], [0,12], [0.85,1.15].
C6_V2OutputsBounded ==
    p_result.op = "v2" =>
        LET out == p_result.out
            m == Max(85, Min(115, p_signals.multiplier))
        IN  /\ out.score >= 0 /\ out.score <= 1000
            /\ out.confidence = RoundDiv(Max(0, Min(3500, 100 * (m - 80))), 35)
            /\ out.confidence >= 0 /\ out.confidence <= 100
            /\ out.breakdown.user_demand_signal >= 0
            /\ out.breakdown.user_demand_signal <= 800
            /\ out.breakdown.competitor_pressure_signal >= 0
            /\ out.breakdown.competitor_pressure_signal <= 700
            /\ out.breakdown.effort_penalty >= 0
            /\ out.breakdown.effort_penalty <= 1200
            /\ out.breakdown.evidence_multiplier >= 85
            /\ out.breakdown.evidence_multiplier <= 115

\* C6 witness: a v2 call with a signal above 1, a signal below 0, a
\* multiplier above 1.15 and a pillar value above 10 has returned.
C6_Witness ==
    /\ p_result.op = "v2"
    /\ p_signals.demand > 100
    /\ p_signals.effort < 0
    /\ p_signals.multiplier > 115
    /\ \E k \in DOMAIN p_pillar_scores : p_pillar_scores[k] > 1000

\* C7 (as claimed): for every pillar mapping passed to calculate_priority
\* (empty mapping, missing keys, unknown keys, values outside [0,10]) the
\* returned base score lies in [0,100].
C7_BaseScoreBounded ==
    p_result.op = "v1" => (p_result.out.score >= 0 /\ p_result.out.score <= 1000)

\* The band of a returned score (tenths) under the documented thresholds
MoscowBand(score) ==
    IF score >= 800 THEN "MUST_HAVE"
    ELSE IF score >= 600 THEN "SHOULD_HAVE"
    ELSE IF score >= 400 THEN "COULD_HAVE"
    ELSE "WONT_HAVE"

\* Every pillar value passed in lies in [0,10]
PillarsInRange ==
    \A k \in DOMAIN p_pillar_scores :
        p_pillar_scores[k] >= 0 /\ p_pillar_scores[k] <= 1000

\* C10 (as claimed): for calculate_priority and calculate_priority_v2 the
\* returned MoSCoW label is the band of the score returned with it, and in
\* v2 the band and the label text belong to the same threshold row.  The
\* v1 part is stated for pillar values within [0,10] only, so that its
\* failure owes nothing to out-of-range scores.
C10_LabelIsBandOfReturnedScore ==
    /\ (p_result.op = "v1" /\ PillarsInRange) =>
            p_result.out.priority = MoscowBand(p_result.out.score)
    /\ p_result.op = "v2" =>
            /\ p_result.out.priority_level = MoscowBand(p_result.out.score)
            /\ <<p_result.out.priority_level, p_result.out.priority_band,
                  p_result.out.priority_text>> \in
                    {<<"MUST_HAVE", "VERY_HIGH", "Very High">>,
                     <<"SHOULD_HAVE", "HIGH", "High">>,
                     <<"COULD_HAVE", "MEDIUM", "Medium">>,
                     <<"WONT_HAVE", "LOW", "Low">>}

\* C12: calculate_priority returns (2 uv + 2 ci + 1.5 sh + 1.5 tr + 1 cp) / 8 * 10
\* rounded to 1 decimal, with 5.0 for every pillar key absent from the
\* mapping; the empty mapping gives exactly 50.0 with COULD_HAVE, all
\* pillars at 9.0 a score >= 80.0 with MUST_HAVE, all pillars at 1.0 a
\* score < 40.0 with WONT_HAVE.
C12_V1Formula ==
    p_result.op = "v1" =>
        LET value(k) == IF k \in DOMAIN p_pillar_scores THEN p_pillar_scores[k] ELSE 500
            \* the weighted sum times 10, pillars in hundredths
            weighted == 20 * value("user_value") + 20 * value("commercial_impact")
                        + 15 * value("strategic_horizon") + 15 * value("technical_reality")
                        + 10 * value("competitive_positioning")
            out == p_result.out
        IN  /\ out.score = RoundDiv(weighted, 80)
            /\ DOMAIN p_pillar_scores = {} =>
                    out.score = 500 /\ out.priority = "COULD_HAVE"
            /\ p_pillar_scores = [k \in PillarKeys |-> 900] =>
                    out.score >= 800 /\ out.priority = "MUST_HAVE"
            /\ p_pillar_scores = [k \in PillarKeys |-> 100] =>
                    out.score < 400 /\ out.priority = "WONT_HAVE"

\* C12 witness: calculate_priority has returned for a mapping that lacks
\* three of the five keys and holds 7.99 and 13.0 for the other two.
C12_Witness ==
    /\ p_result.op = "v1"
    /\ DOMAIN p_pillar_scores = {"user_value", "technical_reality"}
    /\ p_pillar_scores["user_value"] = 799
    /\ p_pillar_scores["technical_reality"] = 1300
    /\ p_result.out.score = 725

\* The signals passed to the v2 call lie in [0,1]
SignalsInRange ==
    \A f \in {"demand", "competitor", "effort"} :
        p_signals[f] >= 0 /\ p_signals[f] <= 100

\* C11: for signals d, c, e in [0,1] calculate_priority_v2 returns
\* round(clamp((base + 8d + 7c - 12e) * clamp(multiplier, 0.85, 1.15), 0, 100), 1)
\* with base the v1 base score of the pillar mapping, and the breakdown
\* records base, 8d, 7c, 12e, the clamped multiplier and a final_score equal
\* to the returned score.
C11_V2Formula ==
    (p_result.op = "v2" /\ SignalsInRange) =>
        LET out == p_result.out
            base == calculate_priority(p_pillar_scores).score
            d == p_signals.demand
            c == p_signals.competitor
            e == p_signals.effort
            m == Max(85, Min(115, p_signals.multiplier))
            \* adjusted score in 1/10000: base is in tenths, d, c, e and m
            \* in hundredths
            adjusted == (10 * base + 8 * d + 7 * c - 12 * e) * m
        IN  /\ out.score = RoundDiv(Max(0, Min(100 * 10000, adjusted)), 1000)
            /\ out.breakdown.base_pillar_score = base
            /\ out.breakdown.user_demand_signal = 8 * d
            /\ out.breakdown.competitor_pressure_signal = 7 * c
            /\ out.breakdown.effort_penalty = 12 * e
            /\ out.breakdown.evidence_multiplier = m
            /\ out.breakdown.final_score = out.score

\* C11 witness: a v2 call with three signals inside [0,1], not all equal,
\* and a multiplier the clamp changes has returned a score strictly
\* between 0 and 100.
C11_Witness ==
    /\ p_result.op = "v2"
    /\ SignalsInRange
    /\ p_signals.demand # p_signals.effort
    /\ p_signals.multiplier > 115
    /\ p_result.out.score > 0
    /\ p_result.out.score < 1000

----------------------------------------------------------------------------
(* quality_engine.py: QualityValidationEngine.evaluate_story_v2 *)

QualityWarning(code, type, severity) ==
    [code |-> code, type |-> type, severity |-> severity]

\* A rule's warning when the rule fired, nothing otherwise
WarnIf(fired, code, type, severity) ==
    IF fired THEN <<QualityWarning(code, type, severity)>> ELSE <<>>

solution_terms ==
    {"implement", "build", "database", "endpoint", "api", "schema", "table",
     "microservice", "backend", "frontend", "refactor"}

\* Mutant of InvalidGherkin: a criterion is invalid when it has none of the
\* three words
InvalidGherkinNone(ac) ==
    LET lower_ac == Lower(ac)
    IN  /\ ~Contains(lower_ac, "given")
        /\ ~Contains(lower_ac, "when")
        /\ ~Contains(lower_ac, "then")

\* "given" not in ac.lower() or "when" not in ac.lower() or "then" not in ac.lower()
InvalidGherkin(ac) ==
    LET lower_ac == Lower(ac)
    IN  \/ ~Contains(lower_ac, "given")
        \/ ~Contains(lower_ac, "when")
        \/ ~Contains(lower_ac, "then")

\* The rule checks of evaluate_story_v2, each TRUE when its branch is taken
QualityRules(summary, user_story, acceptance_criteria, dependencies, metrics, non_functional_reqs) ==
    LET lower_story == Lower(user_story)
        ac_list == StripNonBlank(acceptance_criteria)
        metric_list == StripNonBlank(metrics)
        weak == summary = "" \/ Len(Strip(summary)) < 8
    IN  [summary_missing_or_weak |-> weak,
         summary_too_long |-> ~weak /\ Len(summary) > 120,
         story_not_invest_format |->
            \/ ~Contains(lower_story, "as a ")
            \/ ~Contains(lower_story, " i want ")
            \/ ~Contains(lower_story, " so that "),
         story_solution_focused |-> ContainsAny(lower_story, solution_terms),
         ac_missing |-> ac_list = <<>>,
         ac_too_few |-> ac_list # <<>> /\ Len(ac_list) < 3,
         ac_too_many |-> ac_list # <<>> /\ Len(ac_list) > 6,
         ac_not_gherkin |->
            ac_list # <<>> /\ \E i \in 1..Len(ac_list) : InvalidGherkin(ac_list[i]),
         ac_duplicates |->
            /\ ac_list # <<>>
            /\ Cardinality({Lower(ac_list[i]) : i \in 1..Len(ac_list)}) # Len(ac_list),
         metrics_missing |-> metric_list = <<>>,
         metrics_thin |-> metric_list # <<>> /\ Len(metric_list) < 2,
         nfr_missing |-> non_functional_reqs = <<>>,
         dependencies_many |-> dependencies # <<>> /\ Len(dependencies) > 3]

\* The warnings in the order evaluate_story_v2 appends them
QualityWarnings(r) ==
       WarnIf(r.summary_missing_or_weak, "summary_missing_or_weak", "clarity", "high")
    \o WarnIf(r.summary_too_long, "summary_too_long", "clarity", "medium")
    \o WarnIf(r.story_not_invest_format, "story_not_invest_format", "invest", "high")
    \o WarnIf(r.story_solution_focused, "story_solution_focused", "invest", "medium")
    \o WarnIf(r.ac_missing, "ac_missing", "testability", "high")
    \o WarnIf(r.ac_too_few, "ac_too_few", "testability", "medium")
    \o WarnIf(r.ac_too_many, "ac_too_many", "scope", "low")
    \o WarnIf(r.ac_not_gherkin, "ac_not_gherkin", "testability", "medium")
    \o WarnIf(r.ac_duplicates, "ac_duplicates", "testability", "low")
    \o WarnIf(r.metrics_missing, "metrics_missing", "measurability", "medium")
    \o WarnIf(r.metrics_thin, "metrics_thin", "measurability", "low")
    \o WarnIf(r.nfr_missing, "nfr_missing", "nfr", "medium")
    \o WarnIf(r.dependencies_many, "dependencies_many", "scope", "medium")

\* The message of each warning
WarningMessage ==
    [summary_missing_or_weak |-> "Summary is missing or too weak.",
     summary_too_long |-> "Summary is too long. Tighten scope.",
     story_not_invest_format |-> "User story should follow 'As a... I want... so that...'.",
     story_solution_focused |->
        "Story appears implementation-focused; keep solution details in tasks.",
     ac_missing |-> "Acceptance criteria are missing.",
     ac_too_few |-> "Acceptance criteria are thin. Add additional scenarios.",
     ac_too_many |-> "Too many acceptance criteria for one story. Consider splitting.",
     ac_not_gherkin |-> "Some acceptance criteria are not in Given/When/Then format.",
     ac_duplicates |-> "Duplicate acceptance criteria detected.",
     metrics_missing |-> "Success metrics are missing.",
     metrics_thin |-> "Only one metric found. Consider adding adoption + quality metrics.",
     nfr_missing |-> "Non-functional requirements are missing.",
     dependencies_many |-> "Story has many dependencies. Consider splitting scope."]

\* [warning.message for warning in warnings]
WarningsText(warnings) == [i \in 1..Len(warnings) |-> WarningMessage[warnings[i].code]]

Pen(fired, penalty) == IF fired THEN penalty ELSE 0

\* Mutant of ClarityRaw: a missing summary is charged like a long one
ClarityRawLenient(r) ==
    100 - Pen(r.summary_missing_or_weak, 15) - Pen(r.summary_too_long, 15)

\* The five rule-based dimensions before the final clamp
ClarityRaw(r) ==
    100 - Pen(r.summary_missing_or_weak, 35) - Pen(r.summary_too_long, 15)

InvestRaw(r) ==
    100 - Pen(r.story_not_invest_format, 35) - Pen(r.story_solution_focused, 18)

\* Mutant of TestabilityRaw: ac_too_many is charged to testability as well
TestabilityRawTooMany(r) ==
    100 - Pen(r.ac_missing, 45) - Pen(r.ac_too_few, 18) - Pen(r.ac_too_many, 10)
        - Pen(r.ac_not_gherkin, 20) - Pen(r.ac_duplicates, 8)

TestabilityRaw(r) ==
    100 - Pen(r.ac_missing, 45) - Pen(r.ac_too_few, 18)
        - Pen(r.ac_not_gherkin, 20) - Pen(r.ac_duplicates, 8)

MeasurabilityRaw(r) ==
    100 - Pen(r.metrics_missing, 28) - Pen(r.metrics_thin, 10)

\* Mutant of ScopeRaw: many dependencies are charged 28 instead of 18
ScopeRawHeavy(r) ==
    100 - Pen(r.ac_too_many, 10) - Pen(r.nfr_missing, 12) - Pen(r.dependencies_many, 28)

ScopeRaw(r) ==
    100 - Pen(r.ac_too_many, 10) - Pen(r.nfr_missing, 12) - Pen(r.dependencies_many, 18)

\* evidence = max(0.0, min(100.0, evidence_signal * 100.0)); the signal is
\* in hundredths, so the dimension is the clamped integer
EvidenceDimension(evidence_signal) == Clamp(evidence_signal, 0, 100)

\* Mutant of QualityScore: the six dimensions weigh the same
QualityScoreEvenWeights(clarity, invest, testability, measurability, scope, evidence) ==
    RoundDiv(100 * (clarity + invest + testability + measurability + scope + evidence), 60)

\* Mutant of QualityScore: measurability weighs 0.2, so the weights sum to 1.05
QualityScoreOverweight(clarity, invest, testability, measurability, scope, evidence) ==
    RoundDiv(20 * clarity + 20 * invest + 20 * testability
             + 20 * measurability + 15 * scope + 10 * evidence, 10)

\* quality_score = round(0.2*clarity + 0.2*invest + 0.2*testability
\*                       + 0.15*measurability + 0.15*scope + 0.1*evidence, 1)
QualityScore(clarity, invest, testability, measurability, scope, evidence) ==
    RoundDiv(20 * clarity + 20 * invest + 20 * testability
             + 15 * measurability + 15 * scope + 10 * evidence, 10)

\* evaluate_story_v2.  Dimension, role and final scores are in tenths,
\* quality_confidence in hundredths.
evaluate_story_v2(summary, user_story, acceptance_criteria, dependencies, metrics, non_functional_reqs, evidence_signal) ==
    LET r == QualityRules(summary, user_story, acceptance_criteria,
                          dependencies, metrics, non_functional_reqs)
        warnings == QualityWarnings(r)
        clarity == Clamp(ClarityRaw(r), 0, 100)
        invest == Clamp(InvestRaw(r), 0, 100)
        testability == Clamp(TestabilityRaw(r), 0, 100)
        measurability == Clamp(MeasurabilityRaw(r), 0, 100)
        scope == Clamp(ScopeRaw(r), 0, 100)
        evidence == Clamp(EvidenceDimension(evidence_signal), 0, 100)
        quality_score ==
            QualityScore(clarity, invest, testability, measurability, scope, evidence)
        quality_confidence == RoundDiv(Clamp(6 * evidence + 400, 0, 1000), 10)
        pm_clarity == RoundDiv(50 * clarity + 50 * invest, 10)
        engineering_estimability == RoundDiv(55 * scope + 45 * measurability, 10)
        qa_testability == RoundDiv(70 * testability + 30 * measurability, 10)
        architecture_nfr_readiness ==
            RoundDiv(60 * scope
                     + 40 * (IF non_functional_reqs # <<>> THEN 100 ELSE 55), 10)
        execution_readiness_score ==
            RoundDiv(30 * pm_clarity + 30 * engineering_estimability
                     + 25 * qa_testability + 15 * architecture_nfr_readiness, 100)
    IN  [warnings |-> warnings,
         warnings_text |-> WarningsText(warnings),
         quality_score |-> quality_score,
         quality_confidence |-> quality_confidence,
         quality_breakdown |->
            [clarity |-> 10 * clarity,
             invest |-> 10 * invest,
             testability |-> 10 * testability,
             measurability |-> 10 * measurability,
             scope |-> 10 * scope,
             evidence |-> 10 * evidence,
             final_score |-> quality_score],
         role_scores |->
            [pm_clarity |-> pm_clarity,
             engineering_estimability |-> engineering_estimability,
             qa_testability |-> qa_testability,
             architecture_nfr_readiness |-> architecture_nfr_readiness],
         execution_readiness_score |-> execution_readiness_score]

----------------------------------------------------------------------------
(* Inputs of the quality specification *)

\* The longest summary tried; the rule's limit is 120 characters
MaxSummaryLen == 121

\* The longest acceptance-criteria list tried; ac_too_many needs more than 6
MaxCriteria == 7

\* The longest dependency list tried; dependencies_many needs more than 3
MaxDependencies == 4

RECURSIVE Repeat(_, _)
Repeat(c, n) ==
    IF n <= 0 THEN ""
    ELSE LET h == Repeat(c, n \div 2)
         IN  h \o h \o (IF n % 2 = 1 THEN c ELSE "")

Digits == <<"1", "2", "3", "4", "5", "6", "7", "8", "9">>

SummaryInputs ==
    {"", "  abc     ", "Faster checkout",
     Repeat("x", MaxSummaryLen - 1), Repeat("x", MaxSummaryLen)}

StoryInputs ==
    {"As a buyer, I want carts so that I pay.",
     "As a dev, I want to build an API so that I pay.",
     "I want carts so that I pay",
     "We need a new database table",
     "As a user I want dashboard",
     "As an admin, I want reports so that I can audit.",
     "I want carts as a buyer so that I pay"}

\* The i-th of a family of distinct Given/When/Then criteria
GherkinCriterion(i) == "Given a, When b, Then c" \o Digits[i]

GherkinList(n) == [i \in 1..n |-> GherkinCriterion(i)]

\* Well-formed lists of every length up to MaxCriteria, and lists with a
\* blank criterion, a criterion with no Given/When/Then, a single criterion
\* missing "then", a criterion missing only "given", and a criterion
\* repeated in another case, and two criteria that are neither Gherkin nor
\* distinct
CriteriaInputs ==
    {GherkinList(n) : n \in 0..MaxCriteria} \cup
    {<<"   ">>,
     <<"User can pay">>,
     <<"User can pay", "USER CAN PAY">>,
     <<"Given a cart, when I pay">>,
     <<"When b then c">> \o GherkinList(2),
     GherkinList(3) \o <<"GIVEN A, WHEN B, THEN C1">>,
     GherkinList(2) \o <<"   ">>,
     GherkinList(MaxCriteria - 1) \o <<"User can pay">>}

DependencyList(n) == [i \in 1..n |-> "dep " \o Digits[i]]

DependencyInputs ==
    {DependencyList(0), DependencyList(MaxDependencies - 1),
     DependencyList(MaxDependencies)}

MetricInputs ==
    {<<>>, <<"  ">>, <<"Adoption rate", "">>, <<"Adoption rate", "Retention">>}

NfrInputs == {<<>>, <<"p95 under 300 ms">>}

\* Evidence signals in hundredths: negative, inside (0,1), above 1
EvidenceInputs == {-50, 45, 250}

QualityInit ==
    /\ q_input \in
        [summary : SummaryInputs, user_story : StoryInputs,
         acceptance_criteria : CriteriaInputs, dependencies : DependencyInputs,
         metrics : MetricInputs, non_functional_reqs : NfrInputs,
         evidence_signal : EvidenceInputs]
    /\ q_result = [op |-> "none"]
    /\ PriorityIdle
    /\ MergeIdle
    /\ RequestIdle
    /\ ServicesIdle
    /\ HelperIdle

\* A call of QualityValidationEngine.evaluate_story_v2
EvaluateStoryV2 ==
    /\ q_result.op = "none"
    /\ q_result' =
        [op |-> "evaluate",
         out |-> evaluate_story_v2(q_input.summary, q_input.user_story,
                    q_input.acceptance_criteria, q_input.dependencies,
                    q_input.metrics, q_input.non_functional_reqs,
                    q_input.evidence_signal)]
    /\ UNCHANGED <<q_input, prioVars, mergeVars, reqVars, helpVars, svcVars>>

QualityNext == EvaluateStoryV2

SpecQuality == QualityInit /\ [][QualityNext]_vars

\* The evidence multipliers the score of a call is compared with, in
\* hundredths: below, at and inside the clamp's range, and above it
ComparedMultipliers == {50, 85, 86, 100, 105, 114, 115, 130}

\* The score calculate_priority_v2 gives to the inputs of the call made,
\* with another evidence multiplier
ScoreWith(multiplier) ==
    calculate_priority_v2(p_pillar_scores, p_signals.demand, p_signals.competitor,
                          p_signals.effort, multiplier).score

\* base + 8*d + 7*c - 12*e of the call made, in thousandths
UnscaledScore ==
    LET out == p_result.out.breakdown
    IN  10 * out.base_pillar_score + out.user_demand_signal
        + out.competitor_pressure_signal - out.effort_penalty

\* C25: more evidence never lowers the priority score.  For the pillar
\* scores and the demand, competitor and effort signals of a call of
\* calculate_priority_v2, a multiplier that is not larger than the call's
\* gives a final score that is not larger, and one that is not smaller gives
\* one that is not smaller; when base + 8*d + 7*c - 12*e is negative the
\* score is 0 for every multiplier.
C25_MoreEvidenceNeverLowers ==
    p_result.op = "v2" =>
        /\ \A m \in ComparedMultipliers :
                /\ m <= p_signals.multiplier => ScoreWith(m) <= p_result.out.score
                /\ m >= p_signals.multiplier => ScoreWith(m) >= p_result.out.score
        /\ UnscaledScore < 0 => \A m \in ComparedMultipliers : ScoreWith(m) = 0

\* C25 witness: a call whose score is strictly between those of a smaller
\* and of a larger multiplier.
C25_Witness ==
    /\ p_result.op = "v2"
    /\ p_signals.multiplier = 105
    /\ UnscaledScore > 0
    /\ ScoreWith(50) < p_result.out.score
    /\ p_result.out.score < ScoreWith(130)

\* The case of a negative sum is met: pillars below 0 and a full effort
\* penalty, scored 0 with the smallest and with the largest multiplier.
C25_NegativeSumWitness ==
    /\ p_result.op = "v2"
    /\ UnscaledScore < 0
    /\ p_signals.multiplier = 50
    /\ p_result.out.score = 0
    /\ ScoreWith(130) = 0

----------------------------------------------------------------------------
(* Claims about the quality engine, checked under SpecQuality *)

InScore(x) == x >= 0 /\ x <= 1000

\* C8: for every input to evaluate_story_v2 (any texts, lists of any
\* length, evidence signals below 0 and above 1 included) the six dimension
\* scores, the final quality score, the four role scores and the execution
\* readiness score lie in [0,100] and quality_confidence lies in [0,1].
C8_QualityOutputsBounded ==
    q_result.op = "evaluate" =>
        LET out == q_result.out
        IN  /\ \A d \in {"clarity", "invest", "testability", "measurability",
                          "scope", "evidence", "final_score"} :
                    InScore(out.quality_breakdown[d])
            /\ InScore(out.quality_score)
            /\ \A role \in {"pm_clarity", "engineering_estimability",
                             "qa_testability", "architecture_nfr_readiness"} :
                    InScore(out.role_scores[role])
            /\ InScore(out.execution_readiness_score)
            /\ out.quality_confidence >= 0 /\ out.quality_confidence <= 100

\* C8 witness: an evaluation of the longest criteria list with an evidence
\* signal above 1 has returned, with the evidence dimension held at 100.
C8_Witness ==
    /\ q_result.op = "evaluate"
    /\ q_input.evidence_signal > 100
    /\ Len(q_input.acceptance_criteria) = MaxCriteria
    /\ q_result.out.quality_breakdown.evidence = 1000
    /\ q_result.out.quality_confidence = 100

\* The warning codes of a result
WarningCodes(out) == {out.warnings[i].code : i \in 1..Len(out.warnings)}

\* The penalty charged for a code when the code is among those emitted
Charge(codes, code, penalty) == IF code \in codes THEN penalty ELSE 0

\* C9: in every result of evaluate_story_v2 each warning code appears at
\* most once, and clarity, invest, testability, measurability and scope
\* each equal 100 minus the fixed penalties of the rules whose warning was
\* emitted (no penalty without its warning, no warning without its penalty).
C9_PenaltiesMatchWarnings ==
    q_result.op = "evaluate" =>
        LET out == q_result.out
            codes == WarningCodes(out)
            b == out.quality_breakdown
        IN  /\ Cardinality(codes) = Len(out.warnings)
            /\ b.clarity = 10 * (100 - Charge(codes, "summary_missing_or_weak", 35)
                                     - Charge(codes, "summary_too_long", 15))
            /\ b.invest = 10 * (100 - Charge(codes, "story_not_invest_format", 35)
                                    - Charge(codes, "story_solution_focused", 18))
            /\ b.testability = 10 * (100 - Charge(codes, "ac_missing", 45)
                                         - Charge(codes, "ac_too_few", 18)
                                         - Charge(codes, "ac_not_gherkin", 20)
                                         - Charge(codes, "ac_duplicates", 8))
            /\ b.measurability = 10 * (100 - Charge(codes, "metrics_missing", 28)
                                           - Charge(codes, "metrics_thin", 10))
            /\ b.scope = 10 * (100 - Charge(codes, "ac_too_many", 10)
                                   - Charge(codes, "nfr_missing", 12)
                                   - Charge(codes, "dependencies_many", 18))

\* C9 witness: an evaluation in which rules fired against all five
\* dimensions, three of them against scope.
C9_Witness ==
    /\ q_result.op = "evaluate"
    /\ {"summary_too_long", "story_solution_focused", "ac_not_gherkin",
         "metrics_thin", "ac_too_many", "nfr_missing", "dependencies_many"}
            \subseteq WarningCodes(q_result.out)
    /\ q_result.out.quality_breakdown.scope = 600

\* C21: the quality score returned by evaluate_story_v2 is 0.2 clarity
\* + 0.2 invest + 0.2 testability + 0.15 measurability + 0.15 scope
\* + 0.1 evidence rounded to 1 decimal, where evidence is the evidence signal
\* scaled by 100 and clamped to [0, 100] and the other five are the clamped
\* dimension scores of the breakdown; the breakdown's final_score is the
\* returned quality_score.  (Breakdown and score are in tenths.)
C21_QualityScoreFormula ==
    q_result.op = "evaluate" =>
        LET out == q_result.out
            b == out.quality_breakdown
        IN  /\ b.evidence = 10 * Max(0, Min(100, q_input.evidence_signal))
            /\ \A d \in {"clarity", "invest", "testability", "measurability", "scope"} :
                    b[d] >= 0 /\ b[d] <= 1000
            /\ out.quality_score =
                    RoundDiv(20 * b.clarity + 20 * b.invest + 20 * b.testability
                             + 15 * b.measurability + 15 * b.scope + 10 * b.evidence, 100)
            /\ b.final_score = out.quality_score

\* C21 witness: an evaluation with an evidence signal of 0.45 in which
\* clarity, invest, testability, measurability and scope all differ
C21_Witness ==
    /\ q_result.op = "evaluate"
    /\ q_input.evidence_signal = 45
    /\ LET b == q_result.out.quality_breakdown
       IN  /\ Cardinality({b.clarity, b.invest, b.testability, b.measurability, b.scope}) = 5
           /\ b.evidence = 450
           /\ q_result.out.quality_score < 1000

\* The warnings of a result that have the code
WarningsWithCode(out, code) ==
    SelectSeq(out.warnings, LAMBDA warning : warning.code = code)

\* The scenario of C18: the summary is empty, the narrative has no
\* "so that", and the only acceptance criterion has no "then"
WeakStoryScenario ==
    /\ q_input.summary = ""
    /\ ~Contains(Lower(q_input.user_story), "so that")
    /\ Len(q_input.acceptance_criteria) = 1
    /\ ~Contains(Lower(q_input.acceptance_criteria[1]), "then")

\* C18 as stated: in the scenario the result has at least one high-severity
\* warning and quality_score < 60.0, whatever the dependencies, metrics,
\* non-functional requirements and evidence signal are.
C18_WeakStoryBelowSixty ==
    (q_result.op = "evaluate" /\ WeakStoryScenario) =>
        /\ \E i \in 1..Len(q_result.out.warnings) : q_result.out.warnings[i].severity = "high"
        /\ q_result.out.quality_score < 600

\* C18 amended: in the scenario the result has the high-severity warnings
\* summary_missing_or_weak and story_not_invest_format, clarity and invest
\* are at most 65, testability is at most 62, and quality_score is at most
\* 78.4; it is below 60.0 only when the other inputs cost points as well.
C18_WeakStoryAtMost784 ==
    (q_result.op = "evaluate" /\ WeakStoryScenario) =>
        LET out == q_result.out
        IN  /\ \A code \in {"summary_missing_or_weak", "story_not_invest_format"} :
                    /\ Len(WarningsWithCode(out, code)) = 1
                    /\ WarningsWithCode(out, code)[1].severity = "high"
            /\ out.quality_breakdown.clarity = 650
            /\ out.quality_breakdown.invest <= 650
            /\ out.quality_breakdown.testability <= 620
            /\ out.quality_score <= 784

\* C18 witness: the scenario with two metrics, a non-functional requirement,
\* few dependencies and full evidence scores 78.4
C18_Witness ==
    /\ q_result.op = "evaluate"
    /\ WeakStoryScenario
    /\ q_input.user_story = "As a user I want dashboard"
    /\ q_input.acceptance_criteria = <<"Given a cart, when I pay">>
    /\ q_result.out.quality_score = 784

\* The criteria evaluate_story_v2 looks at: the non-blank ones
NonBlankCriteria ==
    SelectSeq(q_input.acceptance_criteria, LAMBDA ac : Strip(ac) # "")

GherkinWords == {"given", "when", "then"}

\* The warning and the charge of the ac_not_gherkin rule: severity medium,
\* and testability is 20 lower than the other testability rules leave it
GherkinRuleApplied(out) ==
    LET codes == WarningCodes(out)
        emitted == WarningsWithCode(out, "ac_not_gherkin")
    IN  /\ Len(emitted) = 1
        /\ emitted[1].severity = "medium"
        /\ out.quality_breakdown.testability =
                10 * (100 - Charge(codes, "ac_missing", 45) - Charge(codes, "ac_too_few", 18)
                          - Charge(codes, "ac_duplicates", 8) - 20)

\* C19 as stated: ac_not_gherkin (testability -20, severity medium) is
\* emitted exactly when at least one non-blank criterion contains none of
\* given, when, then; a list in which every criterion contains at least one
\* of the three words does not trigger the rule.
C19_GherkinRuleNoneOfThree ==
    q_result.op = "evaluate" =>
        LET out == q_result.out
            none_of_three ==
                \E i \in 1..Len(NonBlankCriteria) :
                    \A word \in GherkinWords : ~Contains(Lower(NonBlankCriteria[i]), word)
        IN  /\ none_of_three => GherkinRuleApplied(out)
            /\ ~none_of_three => "ac_not_gherkin" \notin WarningCodes(out)

\* C19 amended: ac_not_gherkin (testability -20, severity medium) is emitted
\* exactly when at least one non-blank criterion lacks at least one of
\* given, when, then; only a list in which every non-blank criterion
\* contains all three words does not trigger the rule.
C19_GherkinRuleAnyOfThree ==
    q_result.op = "evaluate" =>
        LET out == q_result.out
            lacks_one ==
                \E i \in 1..Len(NonBlankCriteria) :
                    \E word \in GherkinWords : ~Contains(Lower(NonBlankCriteria[i]), word)
        IN  /\ lacks_one => GherkinRuleApplied(out)
            /\ ~lacks_one => "ac_not_gherkin" \notin WarningCodes(out)

\* C19 witness: three criteria, the first with "when" and "then" but without
\* "given", and the rule fired
C19_Witness ==
    /\ q_result.op = "evaluate"
    /\ Len(q_input.acceptance_criteria) = 3
    /\ q_input.acceptance_criteria[1] = "When b then c"
    /\ \A i \in 1..3 : \E word \in GherkinWords :
            Contains(Lower(q_input.acceptance_criteria[i]), word)
    /\ "ac_not_gherkin" \in WarningCodes(q_result.out)

InvestPhrases == {"as a", "i want", "so that"}

\* C20: story_not_invest_format (invest -35, severity high) is emitted when
\* the narrative, compared case-insensitively, lacks the phrases "as a",
\* "i want" and "so that", and is not emitted for any narrative that contains
\* all three phrases, wherever they stand in the text.
C20_InvestRuleByPhrases ==
    q_result.op = "evaluate" =>
        LET out == q_result.out
            lower_story == Lower(q_input.user_story)
            emitted == WarningsWithCode(out, "story_not_invest_format")
        IN  /\ (\A phrase \in InvestPhrases : ~Contains(lower_story, phrase)) =>
                    /\ Len(emitted) = 1
                    /\ emitted[1].severity = "high"
                    /\ out.quality_breakdown.invest =
                            10 * (65 - Charge(WarningCodes(out), "story_solution_focused", 18))
            /\ (\A phrase \in InvestPhrases : Contains(lower_story, phrase)) =>
                    emitted = <<>>

\* A narrative that lacks one of the three phrases gets the warning
C20_LackingPhraseWarned ==
    q_result.op = "evaluate" =>
        LET lower_story == Lower(q_input.user_story)
            emitted == WarningsWithCode(q_result.out, "story_not_invest_format")
        IN  (\E phrase \in InvestPhrases : ~Contains(lower_story, phrase)) =>
                /\ Len(emitted) = 1
                /\ emitted[1].severity = "high"

----------------------------------------------------------------------------
(* story_engine.py: StoryGenerationEngine._safe_merge_revision              *)
(*                                                                          *)
(* A Python dict is a function from its keys to Python values; a Python     *)
(* value is a record tagged with its type, so that a comparison of values   *)
(* of different types is FALSE as in Python.                                *)

PyNone == [t |-> "None"]

PyStr(s) == [t |-> "str", v |-> s]

PyList(l) == [t |-> "list", v |-> l]

PyDict(d) == [t |-> "dict", v |-> d]

PyNum(n) == [t |-> "num", v |-> n]

\* The dict {}
EmptyDict == [k \in {} |-> PyNone]

\* d.get(key)
DictGet(d, key) == IF key \in DOMAIN d THEN d[key] ELSE PyNone

\* The dict after d[key] = value
DictSet(d, key, value) ==
    [k \in DOMAIN d \cup {key} |-> IF k = key THEN value ELSE d[k]]

\* The dict after d.update(other)
DictUpdate(d, other) ==
    [k \in DOMAIN d \cup DOMAIN other |-> IF k \in DOMAIN other THEN other[k] ELSE d[k]]

\* Mutant of InEmpties: the test is `not revised_value`, which also takes
\* 0 for empty
InEmptiesTruthiness(value) ==
    \/ value.t = "None"
    \/ value.t = "str" /\ value.v = ""
    \/ value.t = "list" /\ value.v = <<>>
    \/ value.t = "dict" /\ DOMAIN value.v = {}
    \/ value.t = "num" /\ value.v = 0

\* revised_value in (None, "", [], {})
InEmpties(value) ==
    \/ value.t = "None"
    \/ value.t = "str" /\ value.v = ""
    \/ value.t = "list" /\ value.v = <<>>
    \/ value.t = "dict" /\ DOMAIN value.v = {}

critical_fields ==
    <<"research_summary", "pillar_scores", "dependencies", "metrics",
      "structured_metrics", "acceptance_criteria", "non_functional_reqs">>

\* The loop over critical_fields[i..]: merged after the remaining keys
RECURSIVE MergeCritical(_, _, _, _)
MergeCritical(merged, draft, revised, i) ==
    IF i > Len(critical_fields) THEN merged
    ELSE LET key == critical_fields[i]
             revised_value == DictGet(revised, key)
         IN  MergeCritical(
                IF InEmpties(revised_value)
                THEN DictSet(merged, key, DictGet(draft, key))
                ELSE merged,
                draft, revised, i + 1)

\* _safe_merge_revision: merged = dict(draft); merged.update(revised); then
\* the critical fields.
safe_merge_revision(draft, revised) ==
    MergeCritical(DictUpdate(draft, revised), draft, revised, 1)

\* The draft object after the call: merged is a copy (dict(draft)), so the
\* writes to merged do not reach the draft
DraftAfterMerge(draft, revised) == draft

----------------------------------------------------------------------------
(* Inputs of the merge specification *)

\* The keys tried: the seven critical fields and two others
MergeKeys ==
    {critical_fields[i] : i \in 1..Len(critical_fields)} \cup {"summary", "risks"}

\* What a revised field may hold: nothing (absent), each of the four empty
\* values, a falsy number, content
RevisedKinds == {"absent", "None", "str", "list", "dict", "zero", "content"}

\* What a draft field may hold
DraftKinds == {"absent", "list", "content"}

\* The value of a kind, written by `who`
KindValue(kind, who) ==
    CASE kind = "None" -> PyNone
      [] kind = "str" -> PyStr("")
      [] kind = "list" -> PyList(<<>>)
      [] kind = "dict" -> PyDict(EmptyDict)
      [] kind = "zero" -> PyNum(0)
      [] kind = "content" -> PyList(<<who>>)

\* The dict whose every key holds `base`, except `key`, which holds `kind`
DictOfKinds(base, key, kind, who) ==
    LET kindOf(k) == IF k = key THEN kind ELSE base
    IN  [k \in {x \in MergeKeys : kindOf(x) # "absent"} |-> KindValue(kindOf(k), who)]

MergeInit ==
    /\ \E base \in DraftKinds, key \in MergeKeys, kind \in DraftKinds :
            m_draft = DictOfKinds(base, key, kind, "draft")
    /\ \E base \in RevisedKinds, key \in MergeKeys, kind \in RevisedKinds :
            m_revised = DictOfKinds(base, key, kind, "revised")
    /\ m_result = [op |-> "none"]
    /\ PriorityIdle
    /\ QualityIdle
    /\ RequestIdle
    /\ ServicesIdle
    /\ HelperIdle

\* A call of StoryGenerationEngine._safe_merge_revision(m_draft, m_revised)
SafeMergeRevision ==
    /\ m_result.op = "none"
    /\ m_result' = [op |-> "merge",
                    args |-> [draft |-> m_draft, revised |-> m_revised],
                    merged |-> safe_merge_revision(m_draft, m_revised)]
    /\ m_draft' = DraftAfterMerge(m_draft, m_revised)
    /\ UNCHANGED <<m_revised, prioVars, qualVars, reqVars, helpVars, svcVars>>

MergeNext == SafeMergeRevision

SpecMerge == MergeInit /\ [][MergeNext]_vars

----------------------------------------------------------------------------
(* Claims about the revision merge, checked under SpecMerge *)

CriticalFieldSet == {critical_fields[i] : i \in 1..Len(critical_fields)}

\* C3: _safe_merge_revision(draft, revised) returns a record in which each
\* of the seven critical fields holds the draft's value (draft.get) when
\* the revised value is absent or one of None, "", [], {} and the revised
\* value otherwise, every non-critical field present in revised holds the
\* revised value, and neither argument is modified.
C3_SafeMerge ==
    m_result.op = "merge" =>
        LET merged == m_result.merged
            draft == m_result.args.draft
            revised == m_result.args.revised
            absentOrEmpty(k) ==
                \/ k \notin DOMAIN revised
                \/ revised[k] \in {PyNone, PyStr(""), PyList(<<>>), PyDict(EmptyDict)}
        IN  /\ \A k \in CriticalFieldSet :
                /\ k \in DOMAIN merged
                /\ merged[k] = IF absentOrEmpty(k)
                               THEN (IF k \in DOMAIN draft THEN draft[k] ELSE PyNone)
                               ELSE revised[k]
            /\ \A k \in DOMAIN revised \ CriticalFieldSet :
                    k \in DOMAIN merged /\ merged[k] = revised[k]
            /\ m_draft = draft
            /\ m_revised = revised

\* C3 witness: a merge has returned in which the revised acceptance
\* criteria were the empty list and the draft's were kept, while a revised
\* non-critical field and a revised critical field holding 0 replaced the
\* draft's content.
C3_Witness ==
    /\ m_result.op = "merge"
    /\ "acceptance_criteria" \in DOMAIN m_revised
    /\ m_revised["acceptance_criteria"] = PyList(<<>>)
    /\ m_result.merged["acceptance_criteria"] = PyList(<<"draft">>)
    /\ DictGet(m_draft, "summary") = PyList(<<"draft">>)
    /\ m_result.merged["summary"] = PyNum(0)
    /\ DictGet(m_draft, "metrics") = PyList(<<"draft">>)
    /\ m_result.merged["metrics"] = PyNum(0)

----------------------------------------------------------------------------
(* story_engine.py: the sanitisers of StoryGenerationEngine *)

\* _dedupe_preserve over values[i..], `seen` holding the keys met so far
RECURSIVE DedupeFrom(_, _, _)
DedupeFrom(values, i, seen) ==
    IF i > Len(values) THEN <<>>
    ELSE LET key == Lower(Strip(values[i]))
         IN  IF key = "" \/ key \in seen
             THEN DedupeFrom(values, i + 1, seen)
             ELSE <<Strip(values[i])>> \o DedupeFrom(values, i + 1, seen \cup {key})

dedupe_preserve(values) == DedupeFrom(values, 1, {})

\* _sanitize_list
sanitize_list(values, max_items) ==
    Take(dedupe_preserve(StripNonBlank(values)), max_items)

GherkinReplacements ==
    [w \in {"given", "when", "then", "and"} |->
        CASE w = "given" -> "Given"
          [] w = "when" -> "When"
          [] w = "then" -> "Then"
          [] w = "and" -> "And"]

GherkinPunctuation == {".", ",", ":", ";"}

\* One word of _normalize_gherkin
NormalizeWord(word) ==
    LET raw == Strip(word)
        lower == StripChars(Lower(raw), GherkinPunctuation)
    IN  IF lower \in DOMAIN GherkinReplacements
        THEN Replace(raw, StripChars(raw, GherkinPunctuation), GherkinReplacements[lower])
        ELSE raw

\* _normalize_gherkin
normalize_gherkin(line) ==
    LET text == Strip(line)
        words == Words(text)
        joined == Join([i \in 1..Len(words) |-> NormalizeWord(words[i])], " ")
    IN  IF text = "" THEN text
        ELSE IF joined # "" /\ IsLowerChar(CharAt(joined, 1))
             THEN UpperChar(CharAt(joined, 1)) \o SubSeq(joined, 2, Len(joined))
        ELSE joined

\* _sanitize_acceptance_criteria
sanitize_acceptance_criteria(criteria) ==
    LET cleaned == sanitize_list(criteria, 6)
    IN  [i \in 1..Len(cleaned) |-> normalize_gherkin(cleaned[i])]

\* The dedupe-by-title loop of _sanitize_sub_tasks
RECURSIVE DedupeTitles(_, _, _)
DedupeTitles(items, i, seen) ==
    IF i > Len(items) THEN <<>>
    ELSE LET key == Lower(items[i].title)
         IN  IF key \in seen THEN DedupeTitles(items, i + 1, seen)
             ELSE <<items[i]>> \o DedupeTitles(items, i + 1, seen \cup {key})

\* entry.get(key, "") of a dict of texts
TextGet(entry, key) == IF key \in DOMAIN entry THEN entry[key] ELSE ""

\* The cleaning loop of _sanitize_sub_tasks; an entry is a dict of texts
\* (Dict[str, str] of _StoryDraftV2)
RECURSIVE CleanSubTasks(_)
CleanSubTasks(sub_tasks) ==
    IF sub_tasks = <<>> THEN <<>>
    ELSE LET title == Strip(TextGet(Head(sub_tasks), "title"))
             description == Strip(TextGet(Head(sub_tasks), "description"))
         IN  (IF title = "" THEN <<>>
              ELSE <<[title |-> Take(title, 120), description |-> Take(description, 400)]>>)
             \o CleanSubTasks(Tail(sub_tasks))

\* _sanitize_sub_tasks
sanitize_sub_tasks(sub_tasks) == Take(DedupeTitles(CleanSubTasks(sub_tasks), 1, {}), 8)

\* bool(value) of a Python value
Truthy(value) ==
    CASE value.t = "None" -> FALSE
      [] value.t = "str" -> value.v # ""
      [] value.t = "list" -> value.v # <<>>
      [] value.t = "dict" -> DOMAIN value.v # {}
      [] value.t = "num" -> value.v # 0

\* str(value) of a text or of None
StrOf(value) == IF value.t = "None" THEN "None" ELSE value.v

\* str(item.get("name", "")).strip()
MetricName(item) ==
    IF "name" \in DOMAIN item THEN Strip(StrOf(item["name"])) ELSE ""

\* str(item.get(key)).strip() if item.get(key) else None
MetricField(item, key) ==
    IF Truthy(DictGet(item, key)) THEN PyStr(Strip(StrOf(DictGet(item, key)))) ELSE PyNone

\* MetricItem(name=..., baseline=..., target=..., timeframe=..., owner=...)
\* of a dict whose name is not blank; model_dump() is the same record
MetricItemOf(item) ==
    [name |-> PyStr(MetricName(item)),
     baseline |-> MetricField(item, "baseline"),
     target |-> MetricField(item, "target"),
     timeframe |-> MetricField(item, "timeframe"),
     owner |-> MetricField(item, "owner")]

\* _metric_to_text
metric_to_text(metric) ==
    Join(<<metric.name.v>>
         \o (IF Truthy(metric.target) THEN <<"target " \o metric.target.v>> ELSE <<>>)
         \o (IF Truthy(metric.timeframe) THEN <<"within " \o metric.timeframe.v>> ELSE <<>>),
         " - ")

\* The loop of _sanitize_metrics over merged: the texts collected
RECURSIVE MetricTexts(_)
MetricTexts(merged) ==
    IF merged = <<>> THEN <<>>
    ELSE LET item == Head(merged)
         IN  (IF item.t = "str" /\ Strip(item.v) # "" THEN <<Strip(item.v)>>
              ELSE IF item.t = "dict" /\ MetricName(item.v) # ""
                   THEN <<metric_to_text(MetricItemOf(item.v))>>
              ELSE <<>>)
             \o MetricTexts(Tail(merged))

\* The loop of _sanitize_metrics over merged: the MetricItems collected
RECURSIVE MetricItems(_)
MetricItems(merged) ==
    IF merged = <<>> THEN <<>>
    ELSE LET item == Head(merged)
         IN  (IF ~(item.t = "str" /\ Strip(item.v) # "")
                 /\ item.t = "dict" /\ MetricName(item.v) # ""
              THEN <<MetricItemOf(item.v)>>
              ELSE <<>>)
             \o MetricItems(Tail(merged))

\* Dedupe of MetricItems by lower-cased name, first kept
RECURSIVE DedupeMetricItems(_, _, _)
DedupeMetricItems(items, i, seen) ==
    IF i > Len(items) THEN <<>>
    ELSE LET key == Lower(items[i].name.v)
         IN  IF key \in seen THEN DedupeMetricItems(items, i + 1, seen)
             ELSE <<items[i]>> \o DedupeMetricItems(items, i + 1, seen \cup {key})

\* _sanitize_metrics: the pair (metric_text, deduped_structured[:8])
sanitize_metrics(metrics, structured_metrics) ==
    LET merged == metrics \o structured_metrics
    IN  [metrics |-> sanitize_list(MetricTexts(merged), 8),
         structured_metrics |-> Take(DedupeMetricItems(MetricItems(merged), 1, {}), 8)]

\* _sanitize_pillar_scores: the defaults, overwritten by every value of
\* raw_scores that is not None, clamped to [0, 10]
sanitize_pillar_scores(raw_scores) ==
    [key \in PillarKeys |->
        IF key \in DOMAIN raw_scores THEN Clamp(raw_scores[key], 0, 1000) ELSE 500]

\* d.get(key, default) of a dict held as a function or record
Get(d, key, default) == IF key \in DOMAIN d THEN d[key] ELSE default

TokenPunctuation ==
    {".", ",", ":", ";", "!", "?", "(", ")", "[", "]", "{", "}", "\"", "'"}

\* _tokenize
tokenize(value) ==
    LET words == Words(value)
    IN  {Lower(StripChars(words[i], TokenPunctuation)) :
            i \in {j \in 1..Len(words) : Len(words[j]) > 3}}

\* The text of a source that _build_citation_map tokenizes; a title, snippet
\* or domain that is None or missing is ""
SourceText(source) ==
    Strip(Join(<<Get(source, "title", ""), Get(source, "snippet", ""),
                 Get(source, "domain", "")>>, " "))

\* The sources matched by one claim: those sharing at least two tokens, in
\* the order of source_details, at most three
RECURSIVE MatchedSources(_, _, _)
MatchedSources(claim_tokens, source_details, i) ==
    IF i > Len(source_details) THEN <<>>
    ELSE (IF Cardinality(claim_tokens \cap tokenize(SourceText(source_details[i]))) >= 2
          THEN <<Get(source_details[i], "id", 0)>>
          ELSE <<>>)
         \o MatchedSources(claim_tokens, source_details, i + 1)

ClaimSections == <<"trends", "competitor_features", "differentiators", "risks">>

\* The key f"{section}:{idx}" of the citation map
CitationKey(section, idx) == section \o ":" \o IntText(idx)

\* _build_citation_map: the claims that have a key, as (section, idx) pairs
CitedClaims(research_summary, source_details) ==
    IF source_details = <<>> THEN {}
    ELSE {c \in UNION {{<<ClaimSections[n], idx>> :
                            idx \in 0..(Len(research_summary[ClaimSections[n]]) - 1)} :
                       n \in 1..Len(ClaimSections)} :
            /\ tokenize(research_summary[c[1]][c[2] + 1]) # {}
            /\ MatchedSources(tokenize(research_summary[c[1]][c[2] + 1]),
                              source_details, 1) # <<>>}

\* _build_citation_map
build_citation_map(research_summary, source_details) ==
    LET cited == CitedClaims(research_summary, source_details)
    IN  [key \in {CitationKey(c[1], c[2]) : c \in cited} |->
            LET c == CHOOSE x \in cited : CitationKey(x[1], x[2]) = key
            IN  Take(MatchedSources(tokenize(research_summary[c[1]][c[2] + 1]),
                                    source_details, 1), 3)]

\* _sanitize_research_summary; coverages are in hundredths
sanitize_research_summary(raw_summary, research_inputs) ==
    LET source_details == Take(Get(research_inputs, "source_details", <<>>), 12)
        summary ==
            [trends |-> sanitize_list(Get(raw_summary, "trends", <<>>), 6),
             competitor_features |->
                sanitize_list(Get(raw_summary, "competitor_features", <<>>), 6),
             differentiators |-> sanitize_list(Get(raw_summary, "differentiators", <<>>), 6),
             risks |-> sanitize_list(Get(raw_summary, "risks", <<>>), 6),
             sources |-> sanitize_list(Get(research_inputs, "sources", <<>>), 12),
             source_details |-> source_details]
        citation_map == build_citation_map(summary, source_details)
        claim_total == Len(summary.trends) + Len(summary.competitor_features)
                       + Len(summary.differentiators) + Len(summary.risks)
        mapped_claims == Cardinality(DOMAIN citation_map)
        given == Get(research_inputs, "quality", [k \in {} |-> 0])
        domains == {Get(source_details[i], "domain", "") : i \in 1..Len(source_details)}
        quality ==
            [k \in DOMAIN given \cup {"source_count", "unique_domain_count",
                                       "citation_coverage", "freshness_coverage"} |->
                CASE k = "source_count" -> Len(source_details)
                  [] k = "unique_domain_count" -> Cardinality(domains \ {""})
                  [] k = "citation_coverage" ->
                        IF claim_total # 0 THEN RoundDiv(100 * mapped_claims, claim_total)
                        ELSE 0
                  [] OTHER -> Get(given, k, 0)]
    IN  [trends |-> summary.trends,
         competitor_features |-> summary.competitor_features,
         differentiators |-> summary.differentiators,
         risks |-> summary.risks,
         sources |-> summary.sources,
         source_details |-> source_details,
         citation_map |-> citation_map,
         quality |-> quality]

----------------------------------------------------------------------------
(* story_engine.py: _StoryDraftV2, _validate_and_sanitize_v2, the fallback *)

\* The fields of _StoryDraftV2 and the Python type each must hold.  The
\* elements of a List[str] are texts, those of sub_tasks dicts of texts,
\* those of metrics and structured_metrics (List[Any]) tagged values; the
\* values of pillar_scores are numbers in hundredths; confidence is in
\* thousandths.
DraftFieldType ==
    [summary |-> "str", user_story |-> "str", acceptance_criteria |-> "list",
     sub_tasks |-> "list", dependencies |-> "list", risks |-> "list",
     metrics |-> "list", structured_metrics |-> "list", rollout_plan |-> "list",
     non_functional_reqs |-> "list", assumptions |-> "list",
     open_questions |-> "list", out_of_scope |-> "list", confidence |-> "num",
     research_summary |-> "dict", pillar_scores |-> "dict"]

\* The default of each field of _StoryDraftV2
DraftFieldDefault(key) ==
    CASE DraftFieldType[key] = "str" -> ""
      [] DraftFieldType[key] = "list" -> <<>>
      [] DraftFieldType[key] = "num" -> 650
      [] DraftFieldType[key] = "dict" -> [k \in {} |-> 0]

\* Whether _StoryDraftV2.model_validate(payload) succeeds: the payload is a
\* JSON object and every field it gives has the field's type (no field is
\* Optional, so None is refused; other keys are ignored)
ModelValidates(payload) ==
    /\ payload.t = "dict"
    /\ \A key \in DOMAIN payload.v \cap DOMAIN DraftFieldType :
            payload.v[key].t = DraftFieldType[key]

\* _StoryDraftV2.model_validate(payload) of a payload that validates
ModelValidate(payload) ==
    [key \in DOMAIN DraftFieldType |->
        IF key \in DOMAIN payload.v THEN payload.v[key].v ELSE DraftFieldDefault(key)]

\* A list of texts as a list of Python values
TagTexts(texts) == [i \in 1..Len(texts) |-> PyStr(texts[i])]

\* A list of metric records as a list of Python values
TagDicts(dicts) == [i \in 1..Len(dicts) |-> PyDict(dicts[i])]

DefaultUserStory ==
    "As a user, I want this capability so that I can achieve the desired outcome."

DefaultAcceptanceCriteria ==
    <<"Given the user accesses the feature, When the primary flow is executed, Then the expected outcome is achieved.",
      "Given invalid input, When the user submits the request, Then a clear validation message is shown.",
      "Given a system error occurs, When the operation fails, Then the user receives an actionable error message.">>

DefaultMetrics == <<"Feature adoption rate", "Task completion rate">>

DefaultRolloutPlan == <<"Internal QA", "Pilot release", "General availability">>

DefaultAssumptions == <<"Core user journey remains unchanged outside this story scope">>

\* value or default
OrElse(value, default) == IF value = <<>> THEN default ELSE value

\* _validate_and_sanitize_v2 of a payload that validates.  A story is a
\* Python dict: a function from keys to tagged values.
validate_and_sanitize_v2(payload, research_inputs) ==
    LET draft == ModelValidate(payload)
        m == sanitize_metrics(draft.metrics, draft.structured_metrics)
        summary == Take(Strip(draft.summary), 160)
        user_story == Strip(draft.user_story)
    IN  [summary |-> PyStr(IF summary = "" THEN "Story draft" ELSE summary),
         user_story |-> PyStr(IF user_story = "" THEN DefaultUserStory ELSE user_story),
         acceptance_criteria |->
            PyList(OrElse(sanitize_acceptance_criteria(draft.acceptance_criteria),
                          DefaultAcceptanceCriteria)),
         sub_tasks |-> PyList(sanitize_sub_tasks(draft.sub_tasks)),
         dependencies |-> PyList(sanitize_list(draft.dependencies, 6)),
         risks |-> PyList(sanitize_list(draft.risks, 6)),
         metrics |-> PyList(TagTexts(OrElse(m.metrics, DefaultMetrics))),
         structured_metrics |-> PyList(TagDicts(m.structured_metrics)),
         rollout_plan |->
            PyList(OrElse(sanitize_list(draft.rollout_plan, 6), DefaultRolloutPlan)),
         non_functional_reqs |-> PyList(sanitize_list(draft.non_functional_reqs, 6)),
         assumptions |->
            PyList(OrElse(sanitize_list(draft.assumptions, 5), DefaultAssumptions)),
         open_questions |-> PyList(sanitize_list(draft.open_questions, 5)),
         out_of_scope |-> PyList(sanitize_list(draft.out_of_scope, 5)),
         confidence |-> PyNum(RoundDiv(Clamp(draft.confidence, 0, 1000), 10)),
         research_summary |->
            PyDict(sanitize_research_summary(draft.research_summary, research_inputs)),
         pillar_scores |-> PyDict(sanitize_pillar_scores(draft.pillar_scores))]

\* _split_list
split_list(value) ==
    IF value = "" THEN <<>>
    ELSE LET pieces == Runs(value, {",", ";"})
         IN  StripNonBlank(pieces)

\* _fallback_generation_v2; None and "" are the same text for the optional
\* request fields, which the code only tests for truth
fallback_generation_v2(context, objective, target_user, constraints, success_metrics, research_inputs) ==
    LET persona == IF target_user = "" THEN "user" ELSE target_user
        metrics == split_list(success_metrics)
        non_functional == split_list(constraints)
        raw_summary ==
            [trends |-> OrElse(Take(Get(research_inputs, "snippets", <<>>), 4),
                               <<"insufficient research">>),
             competitor_features |-> <<>>,
             differentiators |-> <<>>,
             risks |-> <<"insufficient research">>]
    IN  [summary |-> PyStr(Take(objective, 120)),
         user_story |->
            PyStr("As a " \o persona \o ", I want " \o Lower(objective)
                  \o " so that I can achieve the desired outcome."),
         acceptance_criteria |->
            PyList(<<"Given I have access to the product, When I complete the primary flow, Then the objective is met.",
                     "Given invalid inputs, When I attempt the action, Then I see a clear error message.",
                     "Given a temporary system issue, When the operation fails, Then the user receives a retry path.">>),
         sub_tasks |->
            PyList(<<[title |-> "Design UX flow",
                      description |-> "Define screens and interactions"],
                     [title |-> "Implement API changes",
                      description |-> "Add endpoints for the new flow"]>>),
         dependencies |-> PyList(<<>>),
         risks |-> PyList(<<"Insufficient research">>),
         metrics |->
            PyList(TagTexts(OrElse(metrics, <<"Adoption rate", "Task completion rate">>))),
         structured_metrics |-> PyList(<<>>),
         rollout_plan |-> PyList(<<"Internal QA", "Limited beta", "General availability">>),
         non_functional_reqs |->
            PyList(OrElse(non_functional, <<"Performance under expected load">>)),
         assumptions |-> PyList(<<"Existing user permissions model remains unchanged">>),
         open_questions |->
            PyList(<<"Define release success threshold with PM and engineering">>),
         out_of_scope |-> PyList(<<"Major redesign outside the current objective scope">>),
         confidence |-> PyNum(55),
         research_summary |-> PyDict(sanitize_research_summary(raw_summary, research_inputs)),
         pillar_scores |-> PyDict([key \in PillarKeys |-> 500])]

\* Mutant of GenerationMeta: the fallback is not flagged
GenerationMetaUnflagged(used_fallback, research_inputs) ==
    PyDict([used_fallback |-> FALSE,
            research_queries |-> Len(Get(research_inputs, "queries", <<>>)),
            research_snippets |-> Len(Get(research_inputs, "snippets", <<>>)),
            research_sources |-> Len(Get(research_inputs, "sources", <<>>))])

\* The "_meta" entry that generate_story_v2 adds to the story
GenerationMeta(used_fallback, research_inputs) ==
    PyDict([used_fallback |-> used_fallback,
            research_queries |-> Len(Get(research_inputs, "queries", <<>>)),
            research_snippets |-> Len(Get(research_inputs, "snippets", <<>>)),
            research_sources |-> Len(Get(research_inputs, "sources", <<>>))])

----------------------------------------------------------------------------
(* main.py: the helpers of generate_backlog_item_v2 *)

\* _build_research_summary: the ResearchSummary of a raw dict or None
build_research_summary(payload) ==
    LET raw == IF Truthy(payload) THEN payload.v ELSE [k \in {} |-> 0]
        quality == Get(raw, "quality", [k \in {} |-> 0])
    IN  [trends |-> Get(raw, "trends", <<>>),
         competitor_features |-> Get(raw, "competitor_features", <<>>),
         differentiators |-> Get(raw, "differentiators", <<>>),
         risks |-> Get(raw, "risks", <<>>),
         sources |-> Get(raw, "sources", <<>>),
         citation_map |-> Get(raw, "citation_map", [k \in {} |-> 0]),
         source_details |-> Get(raw, "source_details", <<>>),
         quality |->
            [source_count |-> Get(quality, "source_count", 0),
             unique_domain_count |-> Get(quality, "unique_domain_count", 0),
             citation_coverage |-> Get(quality, "citation_coverage", 0),
             freshness_coverage |-> Get(quality, "freshness_coverage", 0)]]

\* _calculate_evidence_signal, in hundredths:
\* round(0.35 min(1, sources/8) + 0.2 min(1, domains/6)
\*       + 0.35 citation + 0.1 freshness, 2)
calculate_evidence_signal(research_summary) ==
    LET quality == research_summary.quality
    IN  RoundDiv(35 * 300 * Min(8, quality.source_count)
                 + 20 * 400 * Min(6, quality.unique_domain_count)
                 + 35 * 24 * Clamp(quality.citation_coverage, 0, 100)
                 + 10 * 24 * Clamp(quality.freshness_coverage, 0, 100), 2400)

demand_terms ==
    {"increase", "reduce", "improve", "faster", "conversion", "retention", "adoption"}

\* _compute_user_demand_signal, in hundredths
compute_user_demand_signal(objective, context, success_metrics, generated_metrics, target_user) ==
    Min(100, (IF ContainsAny(Lower(objective), demand_terms) THEN 25 ELSE 0)
             + (IF success_metrics # "" THEN 25 ELSE 0)
             + (IF Len(generated_metrics) >= 2 THEN 20 ELSE 0)
             + (IF target_user # "" THEN 15 ELSE 0)
             + (IF Len(context) > 120 THEN 15 ELSE 0))

\* _compute_competitor_pressure_signal, in hundredths
compute_competitor_pressure_signal(competitors, research_summary) ==
    Min(100, (IF competitors # <<>> THEN Min(30, 10 * Len(competitors)) ELSE 0)
             + (IF research_summary.competitor_features # <<>>
                THEN Min(45, 10 * Len(research_summary.competitor_features)) ELSE 0)
             + (IF research_summary.differentiators # <<>> THEN 15 ELSE 0))

\* _compute_effort_penalty, in hundredths
compute_effort_penalty(dependencies, open_questions, constraints, technical_reality_score) ==
    Min(100, Min(45, 10 * Len(dependencies))
             + Min(25, 7 * Len(open_questions))
             + (IF constraints # "" THEN 15 ELSE 0)
             + (IF technical_reality_score < 450 THEN 20 ELSE 0))

\* _compute_evidence_multiplier, in hundredths: round(0.9 + 0.2 evidence, 2)
compute_evidence_multiplier(research_summary) ==
    RoundDiv(450 + calculate_evidence_signal(research_summary), 5)

\* The first loop of _normalize_metric_payload: the names collected from
\* the entries of "metrics"
RECURSIVE MetricEntryNames(_)
MetricEntryNames(metrics) ==
    IF metrics = <<>> THEN <<>>
    ELSE LET entry == Head(metrics)
         IN  (IF entry.t = "str" /\ Strip(entry.v) # "" THEN <<Strip(entry.v)>>
              ELSE IF entry.t = "dict" /\ MetricName(entry.v) # ""
                   THEN <<MetricName(entry.v)>>
              ELSE <<>>)
             \o MetricEntryNames(Tail(metrics))

\* The MetricItems that a loop of _normalize_metric_payload collects from
\* the dict entries of a list
RECURSIVE DictMetricItems(_)
DictMetricItems(entries) ==
    IF entries = <<>> THEN <<>>
    ELSE LET entry == Head(entries)
         IN  (IF entry.t = "dict" /\ MetricName(entry.v) # ""
              THEN <<MetricItemOf(entry.v)>>
              ELSE <<>>)
             \o DictMetricItems(Tail(entries))

\* Dedupe of names by metric.lower(), first kept
RECURSIVE DedupeNames(_, _, _)
DedupeNames(names, i, seen) ==
    IF i > Len(names) THEN <<>>
    ELSE LET key == Lower(names[i])
         IN  IF key \in seen THEN DedupeNames(names, i + 1, seen)
             ELSE <<names[i]>> \o DedupeNames(names, i + 1, seen \cup {key})

\* _normalize_metric_payload: the pair (deduped_metrics[:8],
\* deduped_structured[:8])
normalize_metric_payload(generated_content) ==
    LET metrics == Get(generated_content, "metrics", PyList(<<>>)).v
        structured == Get(generated_content, "structured_metrics", PyList(<<>>)).v
        from_structured == DictMetricItems(structured)
        normalized_metrics ==
            MetricEntryNames(metrics)
            \o [i \in 1..Len(from_structured) |-> from_structured[i].name.v]
        structured_metrics == DictMetricItems(metrics) \o from_structured
    IN  [metrics |-> Take(DedupeNames(normalized_metrics, 1, {}), 8),
         structured_metrics |-> Take(DedupeMetricItems(structured_metrics, 1, {}), 8)]

\* _normalize_pillar_scores of a dict of numbers or None: the defaults,
\* overwritten by the known keys, clamped to [0, 10]
normalize_pillar_scores(scores) ==
    [key \in PillarKeys |->
        IF Truthy(scores) /\ key \in DOMAIN scores.v
        THEN Clamp(scores.v[key], 0, 1000) ELSE 500]

----------------------------------------------------------------------------
(* story_engine.py: generate_story_v2 and revise_story_v2.  What the LLM    *)
(* call returns is an outcome: the parsed JSON payload, or Raised when      *)
(* _call_openai_json gives up.                                              *)

Raised == [t |-> "raise"]

\* generate_story_v2 after the research inputs are fetched
generate_story_v2(item, client, research_inputs, outcome) ==
    IF client /\ outcome # Raised /\ ModelValidates(outcome)
    THEN DictSet(validate_and_sanitize_v2(outcome, research_inputs), "_meta",
                 GenerationMeta(FALSE, research_inputs))
    ELSE DictSet(fallback_generation_v2(item.context, item.objective, item.target_user,
                                        item.constraints, item.success_metrics,
                                        research_inputs),
                 "_meta", GenerationMeta(TRUE, research_inputs))

\* The research_inputs that revise_story_v2 rebuilds from the draft
RevisionResearchInputs(draft) ==
    LET research_summary == Get(draft, "research_summary", PyDict([k \in {} |-> 0])).v
    IN  [sources |-> Get(research_summary, "sources", <<>>),
         source_details |-> Get(research_summary, "source_details", <<>>),
         quality |-> Get(research_summary, "quality", [k \in {} |-> 0])]

\* revise_story_v2: the draft itself without a client or when anything in
\* the try block raises, the merge of the sanitised payload otherwise
revise_story_v2(draft, client, outcome) ==
    IF client /\ outcome # Raised /\ ModelValidates(outcome)
    THEN LET revised_story ==
                validate_and_sanitize_v2(outcome, RevisionResearchInputs(draft))
             merged == safe_merge_revision(draft, revised_story)
         IN  IF "_meta" \in DOMAIN draft THEN DictSet(merged, "_meta", draft["_meta"])
             ELSE merged
    ELSE draft

----------------------------------------------------------------------------
(* main.py: generate_backlog_item_v2 *)

\* evaluate_payload; confidence is in hundredths
evaluate_payload(payload, item) ==
    LET summary == Get(payload, "summary", PyStr(item.objective)).v
        user_story == Get(payload, "user_story", PyStr(item.objective)).v
        acceptance_criteria == Get(payload, "acceptance_criteria", PyList(<<>>)).v
        dependencies == Get(payload, "dependencies", PyList(<<>>)).v
        m == normalize_metric_payload(payload)
        non_functional_reqs == Get(payload, "non_functional_reqs", PyList(<<>>)).v
        open_questions == Get(payload, "open_questions", PyList(<<>>)).v
        research_summary == build_research_summary(Get(payload, "research_summary", PyNone))
        pillar_scores == normalize_pillar_scores(Get(payload, "pillar_scores", PyNone))
        priority ==
            calculate_priority_v2(
                pillar_scores,
                compute_user_demand_signal(item.objective, item.context,
                                           item.success_metrics, m.metrics, item.target_user),
                compute_competitor_pressure_signal(item.competitors_optional,
                                                   research_summary),
                compute_effort_penalty(dependencies, open_questions, item.constraints,
                                       pillar_scores["technical_reality"]),
                compute_evidence_multiplier(research_summary))
    IN  [summary |-> summary,
         user_story |-> user_story,
         acceptance_criteria |-> acceptance_criteria,
         sub_tasks |-> Get(payload, "sub_tasks", PyList(<<>>)).v,
         dependencies |-> dependencies,
         risks |-> Get(payload, "risks", PyList(<<>>)).v,
         metrics |-> m.metrics,
         structured_metrics |-> m.structured_metrics,
         rollout_plan |-> Get(payload, "rollout_plan", PyList(<<>>)).v,
         non_functional_reqs |-> non_functional_reqs,
         assumptions |-> Get(payload, "assumptions", PyList(<<>>)).v,
         open_questions |-> open_questions,
         out_of_scope |-> Get(payload, "out_of_scope", PyList(<<>>)).v,
         confidence |-> Clamp(Get(payload, "confidence", PyNum(65)).v, 0, 100),
         research_summary |-> research_summary,
         pillar_scores |-> pillar_scores,
         priority_score |-> priority.score,
         priority_level |-> priority.priority_level,
         priority_band |-> priority.priority_band,
         priority_text |-> priority.priority_text,
         priority_confidence |-> priority.confidence,
         priority_breakdown |-> priority.breakdown,
         quality_eval |->
            evaluate_story_v2(summary, user_story, acceptance_criteria, dependencies,
                              m.metrics, non_functional_reqs,
                              calculate_evidence_signal(research_summary))]

\* The locals warning_messages and warning_details of an evaluation
WarningsOf(evaluation) ==
    [messages |-> evaluation.quality_eval.warnings_text,
     details |-> evaluation.quality_eval.warnings]

\* any(warning.severity.value == "high" for warning in warning_details)
AnyHigh(warning_details) ==
    \E i \in 1..Len(warning_details) : warning_details[i].severity = "high"

\* Mutant of ShouldRevise: a score of exactly 85.0 asks for a revision too
ShouldReviseInclusive(client, evaluation) ==
    client /\ (\/ evaluation.quality_eval.quality_score <= 850
               \/ AnyHigh(evaluation.quality_eval.warnings))

\* should_revise: story_engine.client and (quality_score < 85.0 or any
\* warning of severity high)
ShouldRevise(client, evaluation) ==
    client /\ (\/ evaluation.quality_eval.quality_score < 850
               \/ AnyHigh(evaluation.quality_eval.warnings))

\* Mutant of AfterRevision: the revision block is a loop, so the revised
\* draft is tested again
AfterRevisionRetest == "evaluated"

\* Where the request goes after the revision block: the block is an `if`,
\* so to the response
AfterRevision == "respond"

\* Mutant of EvaluationAfterRevision: the revised draft is not evaluated,
\* the first evaluation stays
EvaluationAfterRevisionStale(evaluation, revised, item) == evaluation

\* evaluation = evaluate_payload(generated_content) after
\* generated_content = revised
EvaluationAfterRevision(evaluation, revised, item) == evaluate_payload(revised, item)

\* format_section of JiraService.build_description_template
format_section(title, items) ==
    IF items = <<>> THEN "*" \o title \o "*\n- None"
    ELSE "*" \o title \o "*\n"
         \o Join([i \in 1..Len(items) |-> "- " \o items[i]], "\n")

\* JiraService.build_description_template as generate_backlog_item_v2
\* calls it
build_description_template(item, evaluation) ==
    Join(<<"*Background*\n" \o item.context,
           "*Objective*\n" \o item.objective,
           "*User Story*\n" \o evaluation.user_story,
           format_section("Acceptance Criteria", evaluation.acceptance_criteria),
           format_section("Dependencies", evaluation.dependencies),
           format_section("Non-functional Requirements", evaluation.non_functional_reqs),
           format_section("Assumptions", evaluation.assumptions),
           format_section("Open Questions", evaluation.open_questions),
           format_section("Out of Scope", evaluation.out_of_scope),
           format_section("Risks", evaluation.risks),
           format_section("Metrics", evaluation.metrics),
           format_section("Rollout Plan", evaluation.rollout_plan),
           format_section("Market Trends", evaluation.research_summary.trends),
           format_section("Competitor Features",
                          evaluation.research_summary.competitor_features),
           format_section("Differentiators", evaluation.research_summary.differentiators),
           format_section("Research Sources", evaluation.research_summary.sources)>>,
         "\n\n")

\* The GenerationTelemetry of the response, without the run id, the model
\* names and the latency
Telemetry(generated_content, evaluation, warning_details) ==
    LET generation_meta == Get(generated_content, "_meta", PyDict([k \in {} |-> 0])).v
    IN  [used_fallback |-> Get(generation_meta, "used_fallback", FALSE),
         warnings_count |-> Len(warning_details),
         high_severity_warnings |->
            Cardinality({i \in 1..Len(warning_details) :
                            warning_details[i].severity = "high"}),
         research_queries |-> Get(generation_meta, "research_queries", 0),
         research_snippets |-> Get(generation_meta, "research_snippets", 0),
         research_sources |->
            Get(generation_meta, "research_sources",
                evaluation.research_summary.quality.source_count),
         citation_coverage |-> evaluation.research_summary.quality.citation_coverage]

\* The BacklogItemGenerateV2Response, without the two fresh uuids
Response(item, generated_content, evaluation, warnings) ==
    [summary |-> evaluation.summary,
     user_story |-> evaluation.user_story,
     description |-> build_description_template(item, evaluation),
     acceptance_criteria |-> evaluation.acceptance_criteria,
     sub_tasks |-> evaluation.sub_tasks,
     dependencies |-> evaluation.dependencies,
     risks |-> evaluation.risks,
     metrics |-> evaluation.metrics,
     structured_metrics |-> evaluation.structured_metrics,
     rollout_plan |-> evaluation.rollout_plan,
     non_functional_reqs |-> evaluation.non_functional_reqs,
     assumptions |-> evaluation.assumptions,
     open_questions |-> evaluation.open_questions,
     out_of_scope |-> evaluation.out_of_scope,
     confidence |-> evaluation.confidence,
     research_summary |-> evaluation.research_summary,
     priority_score |-> evaluation.priority_score,
     moscow_priority |-> evaluation.priority_level,
     priority_label |-> evaluation.priority_band,
     priority_label_text |-> evaluation.priority_text,
     priority_confidence |-> evaluation.priority_confidence,
     priority_breakdown |-> evaluation.priority_breakdown,
     pillar_scores |-> evaluation.pillar_scores,
     status |-> "draft",
     validation_warnings |-> warnings.messages,
     warning_details |-> warnings.details,
     quality_score |-> evaluation.quality_eval.quality_score,
     quality_breakdown |-> evaluation.quality_eval.quality_breakdown,
     quality_confidence |-> evaluation.quality_eval.quality_confidence,
     role_scores |-> evaluation.quality_eval.role_scores,
     execution_readiness_score |-> evaluation.quality_eval.execution_readiness_score,
     generation_telemetry |->
        Telemetry(generated_content, evaluation, warnings.details)]

----------------------------------------------------------------------------
(* Inputs of the request specification *)

\* The requests tried.  An optional field that is None is "".
Items ==
    {[context |-> "Checkout funnel loses buyers",
      objective |-> "Improve checkout conversion",
      target_user |-> "shopper",
      market_segment |-> "retail",
      constraints |-> "",
      success_metrics |-> "conversion rate; retention",
      competitors_optional |-> <<"acme">>],
     [context |-> "Sign-in page",
      objective |-> "Login",
      target_user |-> "",
      market_segment |-> "",
      constraints |-> "latency, cost",
      success_metrics |-> "",
      competitors_optional |-> <<>>]}

\* What fetch_research_inputs returns when there is no SerpAPI key or the
\* hourly budget is spent
NoResearch ==
    [queries |-> <<>>, snippets |-> <<>>, sources |-> <<>>, source_details |-> <<>>,
     quality |-> [source_count |-> 0, unique_domain_count |-> 0,
                  citation_coverage |-> 0, freshness_coverage |-> 0]]

SourceA ==
    [id |-> 1, url |-> "https://a.com/x", domain |-> "a.com",
     title |-> "Checkout trends", snippet |-> "One-click checkout lifts conversion."]

SourceB ==
    [id |-> 2, url |-> "https://b.io/y", domain |-> "b.io",
     title |-> "", snippet |-> "Wallet payments grow"]

FourQueries == <<"q1", "q2", "q3", "q4">>

\* The research inputs tried: none, one source of unknown age, two dated
\* sources
ResearchInputs ==
    {NoResearch,
     [queries |-> FourQueries, snippets |-> <<SourceA.snippet>>,
      sources |-> <<SourceA.url>>, source_details |-> <<SourceA>>,
      quality |-> [source_count |-> 1, unique_domain_count |-> 1,
                   citation_coverage |-> 0, freshness_coverage |-> 0]],
     [queries |-> FourQueries, snippets |-> <<SourceA.snippet, SourceB.snippet>>,
      sources |-> <<SourceA.url, SourceB.url>>, source_details |-> <<SourceA, SourceB>>,
      quality |-> [source_count |-> 2, unique_domain_count |-> 2,
                   citation_coverage |-> 0, freshness_coverage |-> 100]]}

GherkinCriteria ==
    <<"given a cart, when the shopper pays, then the order is placed",
      "Given a declined card, When the shopper pays, Then an error is shown",
      "Given a saved card, When the shopper pays, Then no form is shown">>

\* A complete story
CleanPayload ==
    PyDict([summary |-> PyStr(" Faster checkout flow "),
            user_story |->
                PyStr("As a shopper, I want one-click checkout so that I can pay faster."),
            acceptance_criteria |-> PyList(GherkinCriteria),
            sub_tasks |->
                PyList(<<[title |-> "Design flow", description |-> "Screens"],
                         [title |-> "design flow"], [description |-> "untitled"]>>),
            dependencies |-> PyList(<<"Payments team">>),
            risks |-> PyList(<<"Fraud">>),
            metrics |->
                PyList(<<PyStr("Conversion rate"),
                         PyDict([name |-> PyStr("Checkout time"),
                                 target |-> PyStr("30s")])>>),
            non_functional_reqs |-> PyList(<<"p95 under 200 ms">>),
            open_questions |-> PyList(<<"Which wallets?">>),
            confidence |-> PyNum(825),
            research_summary |->
                PyDict([trends |-> <<"Checkout conversion benchmark rising">>,
                        competitor_features |-> <<"Wallet payments">>]),
            pillar_scores |-> PyDict([user_value |-> 800, technical_reality |-> 400,
                                      commercial_impact |-> 1200])])

\* A story with a criterion that is not Gherkin and no non-functional
\* requirement
ThinPayload ==
    PyDict([summary |-> PyStr("Faster checkout flow"),
            user_story |->
                PyStr("As a shopper, I want one-click checkout so that I can pay faster."),
            acceptance_criteria |->
                PyList(<<GherkinCriteria[1], GherkinCriteria[2], "The order is placed">>),
            dependencies |-> PyList(<<"Payments team">>),
            metrics |-> PyList(<<PyStr("Conversion rate"), PyStr("Checkout time")>>),
            pillar_scores |-> PyDict([user_value |-> 650])])

\* A story whose user story is not in the INVEST form
NotInvestPayload ==
    PyDict([summary |-> PyStr("Faster checkout flow"),
            user_story |-> PyStr("Shoppers need quicker payment"),
            acceptance_criteria |-> PyList(GherkinCriteria),
            metrics |-> PyList(<<PyStr("Conversion rate"), PyStr("Checkout time")>>),
            non_functional_reqs |-> PyList(<<"p95 under 200 ms">>),
            research_summary |-> PyDict([differentiators |-> <<"Speed">>])])

\* A payload that _StoryDraftV2 refuses
InvalidPayload == PyDict([summary |-> PyStr("Faster checkout"), metrics |-> PyNone])

\* A story whose only metric is one structured record with a name and a
\* target
OneMetricPayload ==
    PyDict([summary |-> PyStr("Faster checkout flow"),
            user_story |->
                PyStr("As a shopper, I want one-click checkout so that I can pay faster."),
            acceptance_criteria |-> PyList(GherkinCriteria),
            metrics |->
                PyList(<<PyDict([name |-> PyStr("Conversion rate"),
                                 target |-> PyStr("5%")])>>),
            non_functional_reqs |-> PyList(<<"p95 under 200 ms">>)])

\* What the draft call of the LLM may give
DraftOutcomes ==
    {Raised, CleanPayload, ThinPayload, NotInvestPayload, InvalidPayload,
     OneMetricPayload}

\* A revision that rewrites the texts and leaves every critical field out
EmptyCriticalPayload ==
    PyDict([summary |-> PyStr("One-click checkout"),
            user_story |->
                PyStr("As a shopper, I want to pay in one click so that I save time."),
            acceptance_criteria |-> PyList(<<>>),
            pillar_scores |-> PyDict([k \in {} |-> 0])])

\* A complete revision
RevisedPayload ==
    PyDict([summary |-> PyStr("One-click checkout"),
            user_story |->
                PyStr("As a shopper, I want to pay in one click so that I save time."),
            acceptance_criteria |->
                PyList(<<GherkinCriteria[1], GherkinCriteria[2], GherkinCriteria[3],
                         "Given a guest, When the guest pays, Then an account is offered">>),
            dependencies |-> PyList(<<"Payments team", "Risk team">>),
            metrics |-> PyList(<<PyStr("Conversion rate"), PyStr("Refund rate")>>),
            structured_metrics |->
                PyList(<<PyDict([name |-> PyStr("Refund rate"), target |-> PyStr("2%")])>>),
            non_functional_reqs |-> PyList(<<"PCI scope unchanged">>),
            research_summary |-> PyDict([trends |-> <<"Wallet payments grow fast">>]),
            pillar_scores |-> PyDict([user_value |-> 900, strategic_horizon |-> 700])])

\* What the revision call of the LLM may give; {} is the JSON object the
\* code substitutes for an empty answer
RevisionOutcomes ==
    {Raised, PyDict([k \in {} |-> 0]), EmptyCriticalPayload, RevisedPayload,
     NotInvestPayload, InvalidPayload}

----------------------------------------------------------------------------
(* The request specification: one request to POST /backlog/generate/v2 *)

\* The values of OPENAI_MAX_RETRIES tried, up to this one: int() accepts any
\* integer text, a negative one too
MaxRetries == 2

RetryConfigs == -1..MaxRetries

\* Mutant of LastAttempt: the test is made before attempt is incremented
LastAttemptLate(attempt, max_retries) == attempt - 1 > max_retries

\* _call_openai_json: `if attempt > self.max_retries: raise`, after
\* `attempt += 1` at the head of the loop
LastAttempt(attempt, max_retries) == attempt > max_retries

\* The calls of _call_openai_json that entered the loop, after one more
\* returned or raised at its attempt-th attempt; without a client the call
\* raises before the loop
LlmCallsAfter(calls, client, call, attempt, outcome) ==
    IF client
    THEN Append(calls, [call |-> call, attempts |-> attempt, ok |-> outcome # Raised])
    ELSE calls

Init ==
    /\ r_pc = "start"
    /\ r_item \in Items
    /\ r_client \in BOOLEAN
    /\ r_research_inputs = Unset
    /\ r_generated_content = Unset
    /\ r_evaluation = Unset
    /\ r_warnings = Unset
    /\ r_should_revise = FALSE
    /\ r_revise_calls = 0
    /\ r_response = Unset
    /\ r_first_draft = Unset
    /\ r_first_evaluation = Unset
    /\ r_revised_payload = Unset
    /\ r_draft_payload = Unset
    /\ r_max_retries \in RetryConfigs
    /\ r_attempt = 0
    /\ r_llm_calls = <<>>
    /\ PriorityIdle
    /\ QualityIdle
    /\ MergeIdle
    /\ HelperIdle
    /\ ServicesIdle

\* generate_story_v2, first await: research_service.fetch_research_inputs
FetchResearchInputs ==
    /\ r_pc = "start"
    /\ r_research_inputs' \in ResearchInputs
    /\ r_pc' = "research"
    /\ UNCHANGED <<r_item, r_client, r_generated_content, r_evaluation, r_warnings,
                   r_should_revise, r_revise_calls, r_response, r_first_draft,
                   r_first_evaluation, r_revised_payload, r_draft_payload,
                   r_max_retries, r_attempt, r_llm_calls,
                   prioVars, qualVars, mergeVars, helpVars, svcVars>>

\* _call_openai_json inside generate_story_v2: an attempt that fails (create
\* raises, or json.loads does) and is not the last one, so the loop goes on
DraftAttemptFails ==
    /\ r_pc = "research"
    /\ r_client
    /\ ~LastAttempt(r_attempt + 1, r_max_retries)
    /\ r_attempt' = r_attempt + 1
    /\ UNCHANGED <<r_pc, r_item, r_client, r_research_inputs, r_generated_content,
                   r_evaluation, r_warnings, r_should_revise, r_revise_calls,
                   r_response, r_first_draft, r_first_evaluation, r_revised_payload,
                   r_draft_payload, r_max_retries, r_llm_calls,
                   prioVars, qualVars, mergeVars, helpVars, svcVars>>

\* generate_story_v2, the rest: the fallback without a client, the LLM call
\* and its sanitised payload or the fallback otherwise
GenerateStoryV2 ==
    /\ r_pc = "research"
    /\ \E outcome \in DraftOutcomes :
            /\ ~r_client => outcome = Raised
            /\ (r_client /\ outcome = Raised) => LastAttempt(r_attempt + 1, r_max_retries)
            /\ r_draft_payload' = outcome
            /\ r_llm_calls' = LlmCallsAfter(r_llm_calls, r_client, "draft",
                                            r_attempt + 1, outcome)
            /\ r_generated_content' =
                    generate_story_v2(r_item, r_client, r_research_inputs, outcome)
    /\ r_first_draft' = r_generated_content'
    /\ r_attempt' = 0
    /\ r_pc' = "generated"
    /\ UNCHANGED <<r_item, r_client, r_research_inputs, r_evaluation, r_warnings,
                   r_should_revise, r_revise_calls, r_response, r_first_evaluation,
                   r_revised_payload, r_max_retries,
                   prioVars, qualVars, mergeVars, helpVars, svcVars>>

\* Lines 539-546: the first evaluation and the revision criteria
EvaluateDraft ==
    /\ r_pc = "generated"
    /\ r_evaluation' = evaluate_payload(r_generated_content, r_item)
    /\ r_first_evaluation' = r_evaluation'
    /\ r_warnings' = WarningsOf(r_evaluation')
    /\ r_should_revise' = ShouldRevise(r_client, r_evaluation')
    /\ r_pc' = "evaluated"
    /\ UNCHANGED <<r_item, r_client, r_research_inputs, r_generated_content,
                   r_revise_calls, r_response, r_first_draft, r_revised_payload,
                   r_draft_payload, r_max_retries, r_attempt, r_llm_calls,
                   prioVars, qualVars, mergeVars, helpVars, svcVars>>

\* _call_openai_json inside revise_story_v2: an attempt that fails and is
\* not the last one
ReviseAttemptFails ==
    /\ r_pc = "evaluated"
    /\ r_should_revise
    /\ r_client
    /\ ~LastAttempt(r_attempt + 1, r_max_retries)
    /\ r_attempt' = r_attempt + 1
    /\ UNCHANGED <<r_pc, r_item, r_client, r_research_inputs, r_generated_content,
                   r_evaluation, r_warnings, r_should_revise, r_revise_calls,
                   r_response, r_first_draft, r_first_evaluation, r_revised_payload,
                   r_draft_payload, r_max_retries, r_llm_calls,
                   prioVars, qualVars, mergeVars, helpVars, svcVars>>

\* Lines 548-553: the revision block
ReviseStoryV2 ==
    /\ r_pc = "evaluated"
    /\ r_should_revise
    /\ \E outcome \in RevisionOutcomes :
            /\ ~r_client => outcome = Raised
            /\ (r_client /\ outcome = Raised) => LastAttempt(r_attempt + 1, r_max_retries)
            /\ r_revised_payload' = outcome
            /\ r_llm_calls' = LlmCallsAfter(r_llm_calls, r_client, "revise",
                                            r_attempt + 1, outcome)
            /\ r_generated_content' = revise_story_v2(r_generated_content, r_client, outcome)
    /\ r_revise_calls' = r_revise_calls + 1
    /\ r_evaluation' = EvaluationAfterRevision(r_evaluation, r_generated_content', r_item)
    /\ r_warnings' = WarningsOf(r_evaluation')
    /\ r_attempt' = 0
    /\ r_pc' = AfterRevision
    /\ UNCHANGED <<r_item, r_client, r_research_inputs, r_should_revise, r_response,
                   r_first_draft, r_first_evaluation, r_draft_payload, r_max_retries,
                   prioVars, qualVars, mergeVars, helpVars, svcVars>>

\* Lines 555-637: the response, after the revision block or past it
BuildResponse ==
    /\ \/ r_pc = "respond"
       \/ r_pc = "evaluated" /\ ~r_should_revise
    /\ r_response' = Response(r_item, r_generated_content, r_evaluation, r_warnings)
    /\ r_pc' = "done"
    /\ UNCHANGED <<r_item, r_client, r_research_inputs, r_generated_content,
                   r_evaluation, r_warnings, r_should_revise, r_revise_calls,
                   r_first_draft, r_first_evaluation, r_revised_payload,
                   r_draft_payload, r_max_retries, r_attempt, r_llm_calls,
                   prioVars, qualVars, mergeVars, helpVars, svcVars>>

Next ==
    \/ FetchResearchInputs
    \/ DraftAttemptFails
    \/ GenerateStoryV2
    \/ EvaluateDraft
    \/ ReviseAttemptFails
    \/ ReviseStoryV2
    \/ BuildResponse

Spec == Init /\ [][Next]_vars

\* A step of the handler seen from the event loop: the coroutine is resumed
\* and either goes on to its next await or, inside _call_openai_json, starts
\* another attempt.  Every step of Next is one, and one is possible until
\* the response is built.
Resumed ==
    /\ r_pc # "done"
    /\ \/ \E pc \in {"research", "generated", "evaluated", "respond", "done"} \ {r_pc} :
            r_pc' = pc /\ r_attempt' = 0
       \/ r_pc' = r_pc /\ r_attempt' = r_attempt + 1

\* The request with its scheduling: the handler is a coroutine that the
\* event loop resumes whenever the call it awaits returns or raises, and
\* every awaited call does one or the other (the OpenAI client is built
\* with timeout=OPENAI_TIMEOUT_S and httpx with timeout=20.0)
FairSpec == Init /\ [][Next]_vars /\ WF_<<r_pc, r_attempt>>(Resumed)

----------------------------------------------------------------------------
(* Claims about the request, checked under Spec *)

\* The revision criteria, stated on an evaluation
MeetsCriteria(evaluation) ==
    \/ evaluation.quality_eval.quality_score < 850
    \/ \E i \in 1..Len(evaluation.quality_eval.warnings) :
            evaluation.quality_eval.warnings[i].severity = "high"

\* C1: in every execution of generate_backlog_item_v2 revise_story_v2 is
\* called at most once: a step that calls it is the first call and leads to
\* the building of the response, and once it has been called the request
\* never goes back to the test of the revision criteria, whatever the
\* revised draft scores.
C1_ReviseAtMostOnce ==
    [][/\ r_revise_calls' # r_revise_calls =>
            /\ r_revise_calls = 0
            /\ r_revise_calls' = 1
            /\ r_pc' = "respond"
       /\ r_revise_calls >= 1 => r_pc' \in {"respond", "done"}]_vars

\* C1 witness: a response was built after one revision although the revised
\* draft, which differs from the first, still meets the revision criteria.
C1_Witness ==
    /\ r_pc = "done"
    /\ r_revise_calls = 1
    /\ r_generated_content # r_first_draft
    /\ r_client
    /\ MeetsCriteria(r_evaluation)

\* C2: a revision is requested if and only if the story engine has an LLM
\* client and the first evaluation has quality_score < 85.0 or a warning of
\* severity high; otherwise (no client, or a score of 85.0 or more and no
\* high warning) revise_story_v2 is not called and the response is the one
\* built from the first draft's evaluation.
C2_RevisionCriteria ==
    r_pc \in {"evaluated", "respond", "done"} =>
        LET meets == r_client /\ MeetsCriteria(r_first_evaluation)
        IN  /\ r_first_evaluation = evaluate_payload(r_first_draft, r_item)
            /\ r_should_revise <=> meets
            /\ r_pc = "evaluated" => r_revise_calls = 0
            /\ r_pc = "respond" => r_revise_calls = 1 /\ meets
            /\ r_pc = "done" => (r_revise_calls = 1 <=> meets)
            /\ (r_pc = "done" /\ ~meets) =>
                    /\ r_revise_calls = 0
                    /\ r_response = Response(r_item, r_first_draft, r_first_evaluation,
                                             WarningsOf(r_first_evaluation))

\* C2 witness: with a client, a first draft that scores exactly 85.0 and
\* has no high warning was answered without a revision.
C2_Witness ==
    /\ r_pc = "done"
    /\ r_client
    /\ r_first_evaluation.quality_eval.quality_score = 850
    /\ ~AnyHigh(r_first_evaluation.quality_eval.warnings)
    /\ r_revise_calls = 0

\* C4: when the LLM's revised payload has an empty or absent value for a
\* critical field, the draft that revise_story_v2 returns keeps the
\* original draft's value for that field.
C4_RevisionKeepsCriticalFields ==
    (r_revise_calls = 1 /\ r_revised_payload.t = "dict") =>
        \A key \in CriticalFieldSet :
            (key \notin DOMAIN r_revised_payload.v \/ InEmpties(r_revised_payload.v[key]))
                => r_generated_content[key] = r_first_draft[key]

\* C5: the content fields, the priority score and breakdown, the quality
\* score and breakdown and the warnings of a response all come from one
\* evaluation of one draft: the draft revise_story_v2 returned when it was
\* called, the first draft otherwise.
C5_ResponseFromOneEvaluation ==
    r_pc = "done" =>
        LET draft == IF r_revise_calls = 0 THEN r_first_draft
                     ELSE revise_story_v2(r_first_draft, r_client, r_revised_payload)
            evaluation == evaluate_payload(draft, r_item)
        IN  /\ r_generated_content = draft
            /\ r_response = Response(r_item, draft, evaluation, WarningsOf(evaluation))

\* C5 witness: a response was built after a revision that changed the
\* draft, its quality score and its warnings.
C5_Witness ==
    /\ r_pc = "done"
    /\ r_revise_calls = 1
    /\ r_generated_content # r_first_draft
    /\ r_response.quality_score # r_first_evaluation.quality_eval.quality_score
    /\ r_response.warning_details # r_first_evaluation.quality_eval.warnings
    /\ r_response.priority_score # r_first_evaluation.priority_score

(* The signal functions of main.py, called on their own *)

\* The longest list a signal function is called with
MaxListLen == 12

\* A list of n texts
ListOfLen(n) == [i \in 1..n |-> "entry " \o IntText(i)]

ListLengths == {0, 1, 2, 3, 4, 5, MaxListLen}

\* ResearchQuality: counts are ints, coverages floats (hundredths); the
\* schema puts no bound on any of them
CountValues == {-8, -1, 0, 3, 8, 20}

CoverageValues == {-50, 0, 55, 100, 250}

QualityInputs ==
    [source_count : CountValues, unique_domain_count : {-6, 0, 2, 6, 9},
     citation_coverage : CoverageValues, freshness_coverage : {-20, 0, 100, 300}]

EvidenceCalls == [fn : {"evidence"}, research_summary : [quality : QualityInputs]]

DemandCalls ==
    [fn : {"demand"}, objective : {"Improve checkout", "Login page"},
     context : {"", Repeat("c", 120), Repeat("c", 121)},
     success_metrics : {"", "NPS above 40"},
     generated_metrics : {ListOfLen(n) : n \in {0, 1, 2, MaxListLen}},
     target_user : {"", "shopper"}]

CompetitorCalls ==
    [fn : {"competitor"}, competitors : {ListOfLen(n) : n \in ListLengths},
     research_summary :
        [competitor_features : {ListOfLen(n) : n \in ListLengths},
         differentiators : {ListOfLen(n) : n \in {0, 1}}]]

EffortCalls ==
    [fn : {"effort"}, dependencies : {ListOfLen(n) : n \in ListLengths},
     open_questions : {ListOfLen(n) : n \in ListLengths},
     constraints : {"", "No new vendors"},
     technical_reality_score : {0, 449, 450, 1000}]

SignalsInit ==
    /\ h_input \in EvidenceCalls \cup DemandCalls \cup CompetitorCalls \cup EffortCalls
    /\ h_result = [op |-> "none"]
    /\ c_log = <<>>
    /\ PriorityIdle
    /\ QualityIdle
    /\ MergeIdle
    /\ RequestIdle
    /\ ServicesIdle

\* A call of _calculate_evidence_signal
CalculateEvidenceSignal ==
    /\ h_result.op = "none"
    /\ h_input.fn = "evidence"
    /\ h_result' = [op |-> "evidence",
                    out |-> calculate_evidence_signal(h_input.research_summary)]
    /\ UNCHANGED <<h_input, c_log, prioVars, qualVars, mergeVars, reqVars, svcVars>>

\* A call of _compute_evidence_multiplier
ComputeEvidenceMultiplier ==
    /\ h_result.op = "none"
    /\ h_input.fn = "evidence"
    /\ h_result' = [op |-> "multiplier",
                    out |-> compute_evidence_multiplier(h_input.research_summary)]
    /\ UNCHANGED <<h_input, c_log, prioVars, qualVars, mergeVars, reqVars, svcVars>>

\* A call of _compute_user_demand_signal
ComputeUserDemandSignal ==
    /\ h_result.op = "none"
    /\ h_input.fn = "demand"
    /\ h_result' = [op |-> "demand",
                    out |-> compute_user_demand_signal(h_input.objective,
                                h_input.context, h_input.success_metrics,
                                h_input.generated_metrics, h_input.target_user)]
    /\ UNCHANGED <<h_input, c_log, prioVars, qualVars, mergeVars, reqVars, svcVars>>

\* A call of _compute_competitor_pressure_signal
ComputeCompetitorPressureSignal ==
    /\ h_result.op = "none"
    /\ h_input.fn = "competitor"
    /\ h_result' = [op |-> "competitor",
                    out |-> compute_competitor_pressure_signal(h_input.competitors,
                                h_input.research_summary)]
    /\ UNCHANGED <<h_input, c_log, prioVars, qualVars, mergeVars, reqVars, svcVars>>

\* A call of _compute_effort_penalty
ComputeEffortPenalty ==
    /\ h_result.op = "none"
    /\ h_input.fn = "effort"
    /\ h_result' = [op |-> "effort",
                    out |-> compute_effort_penalty(h_input.dependencies,
                                h_input.open_questions, h_input.constraints,
                                h_input.technical_reality_score)]
    /\ UNCHANGED <<h_input, c_log, prioVars, qualVars, mergeVars, reqVars, svcVars>>

SignalsNext ==
    \/ CalculateEvidenceSignal
    \/ ComputeEvidenceMultiplier
    \/ ComputeUserDemandSignal
    \/ ComputeCompetitorPressureSignal
    \/ ComputeEffortPenalty

SpecSignals == SignalsInit /\ [][SignalsNext]_vars

SignalOps == {"evidence", "demand", "competitor", "effort"}

\* C13: each of the four signal functions returns a value in [0, 1]
\* (hundredths: 0..100) for every input, lists of any length and research
\* quality counts and coverages of any value included.
C13_SignalsInUnitInterval ==
    h_result.op \in SignalOps => h_result.out >= 0 /\ h_result.out <= 100

\* The three signals that are computed from lengths and flags stay in [0, 1]
C13_LengthSignalsInUnitInterval ==
    h_result.op \in {"demand", "competitor", "effort"} =>
        h_result.out >= 0 /\ h_result.out <= 100

\* The evidence signal stays in [0, 1] when both counts are not negative
C13_EvidenceOfCountsInUnitInterval ==
    (/\ h_result.op = "evidence"
     /\ h_input.research_summary.quality.source_count >= 0
     /\ h_input.research_summary.quality.unique_domain_count >= 0) =>
        h_result.out >= 0 /\ h_result.out <= 100

\* C14: for every research summary _compute_evidence_multiplier returns
\* 0.9 + 0.2 * evidence, the value lies in [0.9, 1.1] (hundredths: 90..110),
\* and the clamp of calculate_priority_v2 to [0.85, 1.15] leaves it as it is.
C14_MultiplierInRange ==
    h_result.op = "multiplier" =>
        /\ h_result.out =
                RoundDiv(450 + calculate_evidence_signal(h_input.research_summary), 5)
        /\ h_result.out >= 90 /\ h_result.out <= 110
        /\ ClampMultiplier(h_result.out) = h_result.out

\* In a request the research summary comes out of _sanitize_research_summary,
\* whose counts are lengths: the multiplier passed to calculate_priority_v2
\* lies in [0.9, 1.1] and is the one the breakdown reports
C14_PipelineMultiplierInRange ==
    r_evaluation # Unset =>
        LET multiplier == compute_evidence_multiplier(r_evaluation.research_summary)
        IN  /\ multiplier >= 90 /\ multiplier <= 110
            /\ r_evaluation.priority_breakdown.evidence_multiplier = multiplier

(* Calls of the two engines one after the other: both methods are static,
   the classes and their modules hold no attribute, and every value a call
   builds is a local of that call *)

\* The number of calls made in a row
MaxCalls == 3

\* Arguments of evaluate_story_v2
QualityCallArgs ==
    {[summary |-> "Faster checkout",
      user_story |-> "As a buyer, I want carts so that I pay.",
      acceptance_criteria |-> GherkinList(3), dependencies |-> <<>>,
      metrics |-> <<"Adoption rate", "Retention">>,
      non_functional_reqs |-> <<"p95 under 300 ms">>, evidence_signal |-> 45],
     [summary |-> "", user_story |-> "We need a new database table",
      acceptance_criteria |-> <<"User can pay">>, dependencies |-> <<>>,
      metrics |-> <<>>, non_functional_reqs |-> <<>>, evidence_signal |-> 0],
     [summary |-> "Faster checkout", user_story |-> "I want carts so that I pay",
      acceptance_criteria |-> GherkinList(2), dependencies |-> <<"dep 1">>,
      metrics |-> <<"Adoption rate">>, non_functional_reqs |-> <<>>,
      evidence_signal |-> 100]}

\* Arguments of calculate_priority_v2
PriorityCallArgs ==
    {[pillar_scores |-> [k \in PillarKeys |-> 800], demand |-> 80, competitor |-> 70,
      effort |-> 20, multiplier |-> 105],
     [pillar_scores |-> [k \in PillarKeys |-> 100], demand |-> 0, competitor |-> 0,
      effort |-> 100, multiplier |-> 90],
     [pillar_scores |-> [k \in {} |-> 0], demand |-> 35, competitor |-> 150,
      effort |-> -50, multiplier |-> 130]}

\* Mutant of WarningsAtEntry: the list of the previous call is kept
WarningsAtEntryKept(log) ==
    LET earlier == SelectSeq(log, LAMBDA call : call.fn = "evaluate_story_v2")
    IN  IF earlier = <<>> THEN <<>> ELSE earlier[Len(earlier)].out.warnings

\* Line 86 of quality_engine.py: warnings is bound to a new empty list at
\* the entry of every call, whatever calls were made before
WarningsAtEntry(log) == <<>>

\* What a call of evaluate_story_v2 returns after the calls of log
EvaluateStoryV2After(log, args) ==
    LET out == evaluate_story_v2(args.summary, args.user_story,
                    args.acceptance_criteria, args.dependencies, args.metrics,
                    args.non_functional_reqs, args.evidence_signal)
        warnings == WarningsAtEntry(log) \o out.warnings
    IN  [out EXCEPT !.warnings = warnings, !.warnings_text = WarningsText(warnings)]

CallsInit ==
    /\ c_log = <<>>
    /\ h_input = "none"
    /\ h_result = [op |-> "none"]
    /\ PriorityIdle
    /\ QualityIdle
    /\ MergeIdle
    /\ RequestIdle
    /\ ServicesIdle

\* One more call of QualityValidationEngine.evaluate_story_v2
CallEvaluateStoryV2 ==
    /\ Len(c_log) < MaxCalls
    /\ \E args \in QualityCallArgs :
            c_log' = Append(c_log, [fn |-> "evaluate_story_v2", args |-> args,
                                    out |-> EvaluateStoryV2After(c_log, args)])
    /\ UNCHANGED <<h_input, h_result, prioVars, qualVars, mergeVars, reqVars, svcVars>>

\* One more call of PrioritizationEngine.calculate_priority_v2
CallCalculatePriorityV2 ==
    /\ Len(c_log) < MaxCalls
    /\ \E args \in PriorityCallArgs :
            c_log' = Append(c_log, [fn |-> "calculate_priority_v2", args |-> args,
                                    out |-> calculate_priority_v2(args.pillar_scores,
                                                args.demand, args.competitor,
                                                args.effort, args.multiplier)])
    /\ UNCHANGED <<h_input, h_result, prioVars, qualVars, mergeVars, reqVars, svcVars>>

CallsNext == CallEvaluateStoryV2 \/ CallCalculatePriorityV2

SpecCalls == CallsInit /\ [][CallsNext]_vars

PyBool(b) == [t |-> "bool", v |-> b]

PyNaN == [t |-> "nan"]

PyInf(sign) == [t |-> "inf", sign |-> sign]

\* An int above sys.float_info.max, such as 10 ** 400
PyHugeInt == [t |-> "hugeint"]

DecimalDigits == "0123456789"

IsDigits(s) == \A i \in 1..Len(s) : Contains(DecimalDigits, CharAt(s, i))

\* int(s) of a text of decimal digits
RECURSIVE NatOfDigits(_)
NatOfDigits(s) ==
    IF s = "" THEN 0
    ELSE 10 * NatOfDigits(SubSeq(s, 1, Len(s) - 1))
         + ((CHOOSE i \in 1..10 : CharAt(DecimalDigits, i) = CharAt(s, Len(s))) - 1)

\* float(s) of a text: surrounding whitespace and case are ignored, then a
\* sign, then "inf", "infinity", "nan", or digits with at most one point
\* (read to hundredths); anything else is a ValueError.  Exponents and
\* underscores are not read: no text passed in has them.
FloatOfText(s) ==
    LET t == Lower(Strip(s))
        signed == t # "" /\ CharAt(t, 1) \in {"+", "-"}
        sign == IF signed /\ CharAt(t, 1) = "-" THEN -1 ELSE 1
        body == IF signed THEN SubSeq(t, 2, Len(t)) ELSE t
        parts == Runs(body, {"."})
        points == Len(SelectSeq([i \in 1..Len(body) |-> CharAt(body, i)], LAMBDA c : c = "."))
        whole == IF body # "" /\ CharAt(body, 1) = "." THEN ""
                 ELSE IF parts = <<>> THEN "" ELSE parts[1]
        fraction == IF points = 0 THEN ""
                    ELSE IF whole = "" THEN (IF parts = <<>> THEN "" ELSE parts[1])
                    ELSE IF Len(parts) > 1 THEN parts[2] ELSE ""
    IN  IF body \in {"inf", "infinity"} THEN [raised |-> "", value |-> PyInf(sign)]
        ELSE IF body = "nan" THEN [raised |-> "", value |-> PyNaN]
        ELSE IF /\ points <= 1
                /\ whole \o fraction # ""
                /\ IsDigits(whole) /\ IsDigits(fraction)
             THEN [raised |-> "",
                   value |-> PyNum(sign * (100 * NatOfDigits(whole)
                                + NatOfDigits(Take(fraction \o "00", 2))))]
        ELSE [raised |-> "ValueError"]

\* float(value): what it returns, or the exception it raises
FloatOf(value) ==
    CASE value.t = "num" -> [raised |-> "", value |-> value]
      [] value.t \in {"nan", "inf"} -> [raised |-> "", value |-> value]
      [] value.t = "bool" -> [raised |-> "", value |-> PyNum(IF value.v THEN 100 ELSE 0)]
      [] value.t = "str" -> FloatOfText(value.v)
      [] value.t = "hugeint" -> [raised |-> "OverflowError"]
      [] OTHER -> [raised |-> "TypeError"]

\* max(0.0, min(10.0, x)) of a float, in hundredths: min and max keep their
\* first argument when the comparison with a nan is False
ClampFloat(x) ==
    CASE x.t = "nan" -> 1000
      [] x.t = "inf" -> IF x.sign > 0 THEN 1000 ELSE 0
      [] OTHER -> Clamp(x.v, 0, 1000)

\* except (TypeError, ValueError): continue
CaughtByNormalize(raised) == raised \in {"TypeError", "ValueError"}

\* _normalize_pillar_scores of None or of a dict of any values: the
\* PillarScores returned, or the exception that leaves the function
normalize_pillar_scores_of(scores) ==
    LET present(key) == Truthy(scores) /\ key \in DOMAIN scores.v
                        /\ scores.v[key].t # "None"
        escaping == {FloatOf(scores.v[key]).raised : key \in {k \in PillarKeys : present(k)}}
                        \ {r \in {"", "TypeError", "ValueError", "OverflowError"} :
                                r = "" \/ CaughtByNormalize(r)}
    IN  IF escaping # {}
        THEN [raised |-> CHOOSE r \in escaping : TRUE]
        ELSE [raised |-> "",
              value |-> [key \in PillarKeys |->
                            IF present(key) /\ FloatOf(scores.v[key]).raised = ""
                            THEN ClampFloat(FloatOf(scores.v[key]).value)
                            ELSE 500]]

\* The values a pillar key is given
PillarPyValues ==
    {PyNone, PyNum(-300), PyNum(0), PyNum(725), PyNum(1000), PyNum(1300),
     PyStr("abc"), PyStr(""), PyStr(" 12 "), PyStr("7.5"), PyStr("-.5"), PyStr("1.2.3"),
     PyStr("Infinity"), PyStr("nan"), PyList(<<>>), PyBool(TRUE), PyNaN, PyInf(-1),
     PyHugeInt}

\* The keys a dict passed in has: two pillars and a key that is no pillar
PillarInputKeys == {"user_value", "technical_reality", "urgency"}

PillarCalls ==
    [fn : {"pillars"},
     scores : {PyNone} \cup
              {PyDict(d) : d \in UNION {[keys -> PillarPyValues] : keys \in SUBSET PillarInputKeys}}]

\* The longest list of metrics passed in
MaxMetrics == 10

\* The entries a list of metrics is made of: texts, texts that differ in case
\* or in surrounding blanks only, a blank text, a number, and dicts with a
\* name, with the name of another entry in another case, with a blank name,
\* with the name None and with no name
MetricEntries ==
    {PyStr("Adoption"), PyStr("adoption"), PyStr(" Retention "), PyStr("   "), PyNum(3),
     PyDict([name |-> PyStr("Retention")]),
     PyDict([name |-> PyStr("NPS"), target |-> PyStr(" 40 ")]),
     PyDict([name |-> PyStr("nps"), owner |-> PyStr("Growth")]),
     PyDict([name |-> PyStr("  ")]),
     PyDict([name |-> PyNone, target |-> PyStr("5%")]),
     PyDict([target |-> PyStr("10%")])}

LongMetricTexts == [i \in 1..MaxMetrics |-> PyStr("Metric " \o IntText(i))]

LongMetricDicts == [i \in 1..MaxMetrics |-> PyDict([name |-> PyStr("KPI " \o IntText(i))])]

MetricLists ==
    {<<>>, LongMetricTexts, LongMetricDicts, <<PyStr("metric 3")>> \o LongMetricTexts}
    \cup {<<a>> : a \in MetricEntries}
    \cup {<<a, b>> : a, b \in MetricEntries}

StructuredLists ==
    {<<>>, LongMetricDicts,
     <<PyDict([name |-> PyStr("adoption")]), PyStr("Churn"), PyDict([name |-> PyStr("NPS")])>>,
     <<PyDict([name |-> PyStr("")]), PyDict([name |-> PyStr("kpi 2"), baseline |-> PyStr("5")])>>}

MetricCalls ==
    [fn : {"metrics"},
     generated_content :
        {[metrics |-> PyList(metrics), structured_metrics |-> PyList(structured)] :
            metrics \in MetricLists, structured \in StructuredLists}
        \cup {[summary |-> PyStr("Faster checkout")]}]

NormalizeInit ==
    /\ h_input \in PillarCalls \cup MetricCalls
    /\ h_result = [op |-> "none"]
    /\ c_log = <<>>
    /\ PriorityIdle
    /\ QualityIdle
    /\ MergeIdle
    /\ RequestIdle
    /\ ServicesIdle

\* A call of _normalize_pillar_scores
NormalizePillarScores ==
    /\ h_result.op = "none"
    /\ h_input.fn = "pillars"
    /\ h_result' = [op |-> "pillars", out |-> normalize_pillar_scores_of(h_input.scores)]
    /\ UNCHANGED <<h_input, c_log, prioVars, qualVars, mergeVars, reqVars, svcVars>>

\* A call of _normalize_metric_payload
NormalizeMetricPayload ==
    /\ h_result.op = "none"
    /\ h_input.fn = "metrics"
    /\ h_result' = [op |-> "metrics",
                    out |-> normalize_metric_payload(h_input.generated_content)]
    /\ UNCHANGED <<h_input, c_log, prioVars, qualVars, mergeVars, reqVars, svcVars>>

NormalizeNext == NormalizePillarScores \/ NormalizeMetricPayload

SpecNormalize == NormalizeInit /\ [][NormalizeNext]_vars

\* The value the pillar key has in the dict passed in, None when the key or
\* the dict is missing
PillarInputValue(key) ==
    IF h_input.scores.t = "dict" /\ key \in DOMAIN h_input.scores.v
    THEN h_input.scores.v[key] ELSE PyNone

\* What the vector returned must hold for a key
PillarExpected(key) ==
    LET value == PillarInputValue(key)
    IN  IF value.t = "num" THEN {Clamp(value.v, 0, 1000)}
        ELSE IF value.t \in {"None", "list"} \/ value = PyStr("abc") \/ value = PyStr("")
             THEN {500}
        ELSE 0..1000

\* C16: for any input (None, an empty mapping, unknown keys, null or
\* non-numeric values, numbers outside [0, 10]) _normalize_pillar_scores
\* does not raise and returns exactly the five pillar keys, each with the
\* input clamped to [0, 10] when present and numeric and with 5.0 otherwise.
C16_NormalizedPillarScores ==
    h_result.op = "pillars" =>
        /\ h_result.out.raised = ""
        /\ DOMAIN h_result.out.value = PillarKeys
        /\ \A key \in PillarKeys : h_result.out.value[key] \in PillarExpected(key)

\* The same for every dict that holds no int beyond the range of a float
C16_NormalizedUnlessHuge ==
    (/\ h_result.op = "pillars"
     /\ \A key \in PillarKeys : PillarInputValue(key) # PyHugeInt) =>
        /\ h_result.out.raised = ""
        /\ DOMAIN h_result.out.value = PillarKeys
        /\ \A key \in PillarKeys : h_result.out.value[key] \in PillarExpected(key)

\* Texts that float() reads are coerced: " 12 " to 10.0, "7.5" to 7.5
C16_TextsCoerced ==
    h_result.op = "pillars" /\ h_result.out.raised = "" =>
        /\ PillarInputValue("user_value") = PyStr(" 12 ") => h_result.out.value.user_value = 1000
        /\ PillarInputValue("user_value") = PyStr("7.5") => h_result.out.value.user_value = 750
        /\ PillarInputValue("user_value") = PyStr("-.5") => h_result.out.value.user_value = 0
        /\ PillarInputValue("user_value") = PyStr("1.2.3") => h_result.out.value.user_value = 500
        /\ PillarInputValue("user_value") = PyStr("nan") => h_result.out.value.user_value = 1000
        /\ PillarInputValue("user_value") = PyBool(TRUE) => h_result.out.value.user_value = 100

\* The entries of the two lists passed in, "metrics" first
MetricInputEntries ==
    LET content == h_input.generated_content
    IN  (IF "metrics" \in DOMAIN content THEN content.metrics.v ELSE <<>>)
        \o (IF "structured_metrics" \in DOMAIN content
            THEN content.structured_metrics.v ELSE <<>>)

\* The name an entry passed in goes by: the text without surrounding blanks,
\* the name of a dict; "" when it has none
EntryName(entry, structured) ==
    IF entry.t = "str" /\ ~structured THEN Strip(entry.v)
    ELSE IF entry.t = "dict" /\ "name" \in DOMAIN entry.v /\ entry.v["name"].t = "str"
         THEN Strip(entry.v["name"].v)
    ELSE ""

\* The names passed in, in the order of the input; with onlyDicts, those of
\* the dict entries
InputNames(onlyDicts) ==
    LET content == h_input.generated_content
        count == IF "metrics" \in DOMAIN content THEN Len(content.metrics.v) ELSE 0
        entries == MetricInputEntries
        names == [i \in 1..Len(entries) |->
                    IF onlyDicts /\ entries[i].t # "dict" THEN ""
                    ELSE EntryName(entries[i], i > count)]
    IN  SelectSeq(names, LAMBDA name : name # "")

\* out holds, in order and in their casing, the first appearances in names
\* of the names that differ when case is ignored, up to the eighth
FirstAppearances(out, names) ==
    LET lowered == [i \in 1..Len(names) |-> Lower(names[i])]
        firsts == {i \in 1..Len(names) : \A j \in 1..(i - 1) : lowered[j] # lowered[i]}
        order == Sorted(firsts)
    IN  /\ Len(out) = Min(8, Len(order))
        /\ \A k \in 1..Len(out) : out[k] = names[order[k]]
        /\ \A k, l \in 1..Len(out) : k < l => Lower(out[k]) # Lower(out[l])

\* C17: _normalize_metric_payload returns a text list and a structured list
\* of at most 8 entries each, in which no two entries are equal when case is
\* ignored (texts by value, structured entries by name), entries keep the
\* relative order and the casing of their first appearance in the input, and
\* structured entries with an empty or missing name are dropped.
C17_NormalizedMetrics ==
    h_result.op = "metrics" =>
        LET out == h_result.out
            structured_names ==
                [i \in 1..Len(out.structured_metrics) |-> out.structured_metrics[i].name.v]
        IN  /\ FirstAppearances(out.metrics, InputNames(FALSE))
            /\ FirstAppearances(structured_names, InputNames(TRUE))
            /\ \A i \in 1..Len(structured_names) : structured_names[i] # ""

\* The same for every input in which no dict has the name None
C17_NormalizedNamedMetrics ==
    (/\ h_result.op = "metrics"
     /\ \A i \in 1..Len(MetricInputEntries) :
            LET entry == MetricInputEntries[i]
            IN  entry.t = "dict" /\ "name" \in DOMAIN entry.v => entry.v["name"].t = "str") =>
        LET out == h_result.out
            structured_names ==
                [i \in 1..Len(out.structured_metrics) |-> out.structured_metrics[i].name.v]
        IN  /\ FirstAppearances(out.metrics, InputNames(FALSE))
            /\ FirstAppearances(structured_names, InputNames(TRUE))
            /\ \A i \in 1..Len(structured_names) : structured_names[i] # ""


----------------------------------------------------------------------------
(* Claims about LLM failures, checked under Spec *)

\* Whether an outcome of the LLM call is a failure: _call_openai_json gave
\* up, or _StoryDraftV2 refuses the payload
FailedOutcome(outcome) == outcome = Raised \/ ~ModelValidates(outcome)

\* C22: an LLM failure never reaches the caller of the story engine.  When
\* the draft call fails (no client, every attempt raised, or the payload
\* fails validation) generate_story_v2 returns the fallback draft, whose
\* _meta.used_fallback is True; when the revision call fails
\* revise_story_v2 returns the draft it was given, unchanged, and it does
\* so for any answer when no client is configured.
C22_LlmFailureYieldsFallback ==
    /\ (r_first_draft # Unset /\ (~r_client \/ FailedOutcome(r_draft_payload))) =>
            /\ r_first_draft =
                    DictSet(fallback_generation_v2(r_item.context, r_item.objective,
                                                   r_item.target_user, r_item.constraints,
                                                   r_item.success_metrics, r_research_inputs),
                            "_meta", r_first_draft["_meta"])
            /\ r_first_draft["_meta"].v.used_fallback = TRUE
    /\ (r_revise_calls = 1 /\ FailedOutcome(r_revised_payload)) =>
            r_generated_content = r_first_draft
    /\ r_first_draft # Unset =>
            \A outcome \in RevisionOutcomes :
                revise_story_v2(r_first_draft, FALSE, outcome) = r_first_draft

\* C22 witness: a response was built in a request whose draft payload
\* failed validation and whose revision call gave up after its last attempt.
C22_Witness ==
    /\ r_pc = "done"
    /\ r_client
    /\ r_draft_payload = InvalidPayload
    /\ r_revised_payload = Raised
    /\ r_revise_calls = 1
    /\ r_generated_content = r_first_draft
    /\ r_first_draft["_meta"].v.used_fallback = TRUE


----------------------------------------------------------------------------
(* main.py, slack_interactions: the sync_to_jira block action.  Each        *)
(* request is a coroutine; it yields to the others at its awaits            *)
(* (get_session, session.save, post_sync_success), and                      *)
(* jira_service.create_issue_v2 is a plain call made between two awaits.    *)

\* The block-action requests in flight at the same time, at most
MaxRequests == 2

SyncRequests == 1..MaxRequests

\* The session the preview message carries, and an id no row has
KnownSession == "session-1"

SessionValues == {KnownSession, "session-0"}

\* The issue JIRA creates: the n-th issue of the project
JiraResponse(n) ==
    [key |-> "TAC-" \o IntText(n), url |-> "http://jira/browse/TAC-" \o IntText(n)]

\* The row of a session that generation stored
GeneratedRow == [status |-> "generated", jira_key |-> "", jira_url |-> ""]

\* The row of a session synced before the requests start
SyncedRow ==
    [status |-> "synced", jira_key |-> JiraResponse(0).key, jira_url |-> JiraResponse(0).url]

\* A request before its handler runs
NewRequest(session_id) ==
    [pc |-> "new", session_id |-> session_id, read |-> Unset, session |-> Unset,
     jira_response |-> Unset, answer |-> ""]

\* Mutant of IsSynced: the status is not looked at
IsSyncedIgnored(session) == FALSE

\* if session.status == SlackSessionStatus.SYNCED
IsSynced(session) == session.status = "synced"

\* The issues created so far
IssuesCreated == Cardinality({i \in 1..Len(s_jira_calls) : s_jira_calls[i].out # Raised})

SlackSyncInit ==
    /\ s_sessions \in [{KnownSession} -> {GeneratedRow, SyncedRow}]
    /\ s_reqs \in [SyncRequests -> {NewRequest(v) : v \in SessionValues}]
    /\ s_jira_calls = <<>>
    /\ s_posts = <<>>
    /\ ResearchIdle
    /\ PriorityIdle
    /\ QualityIdle
    /\ MergeIdle
    /\ RequestIdle
    /\ HelperIdle

\* session = await slack_service.get_session(session_id): the row as it is
\* when the query runs, None when there is none
GetSession(r) ==
    /\ s_reqs[r].pc = "new"
    /\ LET row == IF s_reqs[r].session_id \in DOMAIN s_sessions
                  THEN s_sessions[s_reqs[r].session_id] ELSE PyNone
       IN  s_reqs' = [s_reqs EXCEPT ![r].pc = "got", ![r].read = row, ![r].session = row]
    /\ UNCHANGED <<s_sessions, s_jira_calls, s_posts, researchVars,
                   prioVars, qualVars, mergeVars, reqVars, helpVars>>

\* if not session: "Session not found or expired."
AnswerNotFound(r) ==
    /\ s_reqs[r].pc = "got"
    /\ s_reqs[r].session = PyNone
    /\ s_reqs' = [s_reqs EXCEPT ![r].pc = "done",
                                ![r].answer = "Session not found or expired."]
    /\ UNCHANGED <<s_sessions, s_jira_calls, s_posts, researchVars,
                   prioVars, qualVars, mergeVars, reqVars, helpVars>>

\* if session.status == SYNCED: post_sync_success, then "Already synced.";
\* a post that raises ends the handler without an answer
AnswerAlreadySynced(r) ==
    /\ s_reqs[r].pc = "got"
    /\ s_reqs[r].session # PyNone
    /\ IsSynced(s_reqs[r].session)
    /\ \E posted \in BOOLEAN :
            IF posted
            THEN /\ s_posts' = Append(s_posts, [kind |-> "sync_success", by |-> r,
                                                jira_key |-> s_reqs[r].session.jira_key,
                                                jira_url |-> s_reqs[r].session.jira_url])
                 /\ s_reqs' = [s_reqs EXCEPT ![r].pc = "done",
                                             ![r].answer = "Already synced."]
            ELSE /\ s_posts' = s_posts
                 /\ s_reqs' = [s_reqs EXCEPT ![r].pc = "raised"]
    /\ UNCHANGED <<s_sessions, s_jira_calls, researchVars,
                   prioVars, qualVars, mergeVars, reqVars, helpVars>>

\* jira_response = jira_service.create_issue_v2(...) and the assignments of
\* mark_synced, up to its await of session.save(); a call that raises ends
\* the handler
CreateIssueV2(r) ==
    /\ s_reqs[r].pc = "got"
    /\ s_reqs[r].session # PyNone
    /\ ~IsSynced(s_reqs[r].session)
    /\ \E created \in BOOLEAN :
            IF created
            THEN LET jira_response == JiraResponse(IssuesCreated + 1)
                 IN  /\ s_jira_calls' = Append(s_jira_calls,
                                               [by |-> r, session_id |-> s_reqs[r].session_id,
                                                out |-> jira_response])
                     /\ s_reqs' = [s_reqs EXCEPT
                                        ![r].pc = "saving",
                                        ![r].jira_response = jira_response,
                                        ![r].session = [status |-> "synced",
                                                        jira_key |-> jira_response.key,
                                                        jira_url |-> jira_response.url]]
            ELSE /\ s_jira_calls' = Append(s_jira_calls,
                                           [by |-> r, session_id |-> s_reqs[r].session_id,
                                            out |-> Raised])
                 /\ s_reqs' = [s_reqs EXCEPT ![r].pc = "raised"]
    /\ UNCHANGED <<s_sessions, s_posts, researchVars,
                   prioVars, qualVars, mergeVars, reqVars, helpVars>>

\* mark_synced: await session.save() writes the fields of the object
MarkSynced(r) ==
    /\ s_reqs[r].pc = "saving"
    /\ s_sessions' = [s_sessions EXCEPT ![s_reqs[r].session_id] = s_reqs[r].session]
    /\ s_reqs' = [s_reqs EXCEPT ![r].pc = "saved"]
    /\ UNCHANGED <<s_jira_calls, s_posts, researchVars,
                   prioVars, qualVars, mergeVars, reqVars, helpVars>>

\* post_sync_success of the new issue, then "Synced to JIRA."
AnswerSynced(r) ==
    /\ s_reqs[r].pc = "saved"
    /\ \E posted \in BOOLEAN :
            IF posted
            THEN /\ s_posts' = Append(s_posts, [kind |-> "sync_success", by |-> r,
                                                jira_key |-> s_reqs[r].jira_response.key,
                                                jira_url |-> s_reqs[r].jira_response.url])
                 /\ s_reqs' = [s_reqs EXCEPT ![r].pc = "done",
                                             ![r].answer = "Synced to JIRA."]
            ELSE /\ s_posts' = s_posts
                 /\ s_reqs' = [s_reqs EXCEPT ![r].pc = "raised"]
    /\ UNCHANGED <<s_sessions, s_jira_calls, researchVars,
                   prioVars, qualVars, mergeVars, reqVars, helpVars>>

SlackSyncNext ==
    \E r \in SyncRequests :
        \/ GetSession(r)
        \/ AnswerNotFound(r)
        \/ AnswerAlreadySynced(r)
        \/ CreateIssueV2(r)
        \/ MarkSynced(r)
        \/ AnswerSynced(r)

SpecSlackSync == SlackSyncInit /\ [][SlackSyncNext]_vars


----------------------------------------------------------------------------
(* Claims about the sync_to_jira block action, checked under SpecSlackSync *)

\* The request found the session and its row was SYNCED (GENERATED) when
\* get_session read it
ReadStatus(r, status) ==
    /\ s_reqs[r].read # Unset
    /\ s_reqs[r].read # PyNone
    /\ s_reqs[r].read.status = status

\* The create_issue_v2 calls a request made
CallsBy(r) == {i \in 1..Len(s_jira_calls) : s_jira_calls[i].by = r}

\* C23: a sync_to_jira block action that finds its session SYNCED answers
\* "Already synced." when it answers, calls create_issue_v2 zero times and
\* none of its steps changes the session's row; one that finds its session
\* GENERATED and whose create_issue_v2 call returns has made exactly that
\* one call when it marks the session, and the step that marks it leaves
\* the row SYNCED with the key and the url of the issue that call created.
C23_SyncedIsFinal ==
    /\ [](\A r \in SyncRequests :
            /\ ReadStatus(r, "synced") =>
                    /\ CallsBy(r) = {}
                    /\ s_reqs[r].pc \in {"got", "done", "raised"}
                    /\ s_reqs[r].pc = "done" => s_reqs[r].answer = "Already synced."
            /\ (ReadStatus(r, "generated") /\ s_reqs[r].pc \in {"saving", "saved", "done"}) =>
                    /\ Cardinality(CallsBy(r)) = 1
                    /\ \A i \in CallsBy(r) : s_jira_calls[i].out = s_reqs[r].jira_response
                    /\ s_reqs[r].pc = "done" => s_reqs[r].answer = "Synced to JIRA.")
    /\ [][\A r \in SyncRequests :
            /\ (ReadStatus(r, "synced") /\ s_reqs'[r] # s_reqs[r]) =>
                    /\ s_sessions' = s_sessions
                    /\ s_jira_calls' = s_jira_calls
            /\ (s_reqs[r].pc = "saving" /\ s_reqs'[r].pc = "saved") =>
                    s_sessions'[s_reqs[r].session_id] =
                        [status |-> "synced",
                         jira_key |-> s_reqs[r].jira_response.key,
                         jira_url |-> s_reqs[r].jira_response.url]]_vars

\* C23 witness: one request synced the GENERATED session and answered, and
\* a later one read the row SYNCED with that issue and answered
\* "Already synced."
C23_Witness ==
    \E r1, r2 \in SyncRequests :
        /\ ReadStatus(r1, "generated")
        /\ s_reqs[r1].pc = "done"
        /\ s_reqs[r1].answer = "Synced to JIRA."
        /\ ReadStatus(r2, "synced")
        /\ s_reqs[r2].read.jira_key = s_reqs[r1].jira_response.key
        /\ s_reqs[r2].pc = "done"
        /\ s_reqs[r2].answer = "Already synced."
        /\ IssuesCreated = 1
        /\ s_sessions[KnownSession].jira_key = s_reqs[r1].jira_response.key

\* C26: whatever the interleaving of the sync_to_jira requests on a session,
\* create_issue_v2 creates at most one issue for it.
C26_AtMostOneIssue ==
    Cardinality({i \in 1..Len(s_jira_calls) :
                    /\ s_jira_calls[i].session_id = KnownSession
                    /\ s_jira_calls[i].out # Raised}) <= 1

\* The requests that read the session GENERATED before any of them marked it
\* are those that create an issue each: the calls are as many as such
\* requests, and no more.
C26_OneIssuePerStaleRead ==
    IssuesCreated <= Cardinality({r \in SyncRequests : ReadStatus(r, "generated")})


----------------------------------------------------------------------------
(* Claims about the retries of the LLM call, checked under FairSpec *)

\* The attempts made so far: those of the calls that returned or raised and
\* those of the call in progress
AttemptsMade ==
    LET S[i \in 0..Len(r_llm_calls)] ==
            IF i = 0 THEN 0 ELSE S[i - 1] + r_llm_calls[i].attempts
    IN  S[Len(r_llm_calls)] + r_attempt

\* The attempts one call of _call_openai_json makes at most: the loop body
\* runs once before max_retries is looked at
AttemptsBound(max_retries) == Max(1, max_retries + 1)

\* C24 as stated: every request ends, no call of _call_openai_json makes
\* more than max_retries + 1 attempts and a request makes at most
\* 2 * (max_retries + 1) attempts.
C24_AtMostRetriesPlusOne ==
    /\ <>(r_pc = "done")
    /\ [](/\ \A i \in 1..Len(r_llm_calls) : r_llm_calls[i].attempts <= r_max_retries + 1
          /\ AttemptsMade <= 2 * (r_max_retries + 1))

\* C24: _call_openai_json always terminates, and so does the request: it
\* makes at least one and at most max(1, max_retries + 1) attempts, an
\* attempt that succeeds ends the call with its result, the call raises
\* only after an attempt whose number exceeds max_retries, and a request
\* makes at most two calls (the draft, then one revision), hence at most
\* 2 * max(1, max_retries + 1) attempts.
C24_BoundedRetries ==
    /\ <>(r_pc = "done")
    /\ [](/\ \A i \in 1..Len(r_llm_calls) :
                /\ r_llm_calls[i].attempts >= 1
                /\ r_llm_calls[i].attempts <= AttemptsBound(r_max_retries)
                /\ ~r_llm_calls[i].ok => r_llm_calls[i].attempts > r_max_retries
          /\ r_attempt < AttemptsBound(r_max_retries)
          /\ Len(r_llm_calls) <= 2
          /\ \A i \in 1..Len(r_llm_calls) :
                r_llm_calls[i].call = (IF i = 1 THEN "draft" ELSE "revise")
          /\ AttemptsMade <= 2 * AttemptsBound(r_max_retries))
    /\ [][/\ r_attempt' > r_attempt =>
                /\ r_attempt' = r_attempt + 1
                /\ r_llm_calls' = r_llm_calls
                /\ r_pc' = r_pc
          /\ r_llm_calls' # r_llm_calls =>
                /\ Len(r_llm_calls') = Len(r_llm_calls) + 1
                /\ r_llm_calls'[Len(r_llm_calls')].attempts = r_attempt + 1
                /\ r_attempt' = 0]_vars

\* C24 witness: a request with max_retries = MaxRetries ended after a draft
\* call that failed at every attempt and a revision call that succeeded at
\* its last attempt, which is the bound.
C24_Witness ==
    /\ r_pc = "done"
    /\ r_max_retries = MaxRetries
    /\ Len(r_llm_calls) = 2
    /\ ~r_llm_calls[1].ok
    /\ r_llm_calls[2].ok
    /\ r_llm_calls[1].attempts = MaxRetries + 1
    /\ r_llm_calls[2].attempts = MaxRetries + 1
    /\ AttemptsMade = 2 * AttemptsBound(r_max_retries)


----------------------------------------------------------------------------
(* market_research_service.py: the hourly budget of SerpAPI requests.      *)
(* fetch_research_inputs is a coroutine; between the test of the budget    *)
(* and the bookkeeping of a request it awaits the HTTP response, and the   *)
(* other calls made on the same service run meanwhile.                     *)

\* The 3600 of `cutoff = time.time() - 3600`, in seconds
SearchWindow == 3600

\* SERPAPI_MAX_SEARCHES_PER_HOUR as configured in the model
MaxSearchesPerHour == 2

\* The calls of fetch_research_inputs in flight at the same time, at most
MaxFetchCalls == 2

\* The queries of a call that the model follows (_build_queries gives four)
QueriesPerCall == 3

\* The clock advances by this many seconds at a time, up to MaxClock
ClockStep == 1800

MaxClock == 5400

FetchCalls == 1..MaxFetchCalls

\* [t for t in self._search_timestamps if t >= cutoff]
PrunedTimestamps(timestamps, now) ==
    SelectSeq(timestamps, LAMBDA t : t >= now - SearchWindow)

\* _can_search, on the pruned list
CanSearch(timestamps, now) ==
    Len(PrunedTimestamps(timestamps, now)) < MaxSearchesPerHour

ResearchInit ==
    /\ ms_now = 0
    /\ ms_search_timestamps = <<>>
    /\ ms_calls = [c \in FetchCalls |-> [pc |-> "new", queries |-> 0]]
    /\ ms_requests = <<>>
    /\ SlackIdle
    /\ PriorityIdle
    /\ QualityIdle
    /\ MergeIdle
    /\ RequestIdle
    /\ HelperIdle

\* time.time() moves on
ClockTick ==
    /\ ms_now + ClockStep <= MaxClock
    /\ ms_now' = ms_now + ClockStep
    /\ UNCHANGED <<ms_search_timestamps, ms_calls, ms_requests, slackVars,
                   prioVars, qualVars, mergeVars, reqVars, helpVars>>

\* fetch_research_inputs up to the loop: with a key and no cached result,
\* the empty result when _can_search() fails, the queries otherwise
StartFetch(c) ==
    /\ ms_calls[c].pc = "new"
    /\ ms_search_timestamps' = PrunedTimestamps(ms_search_timestamps, ms_now)
    /\ ms_calls' = [ms_calls EXCEPT ![c] =
                        IF CanSearch(ms_search_timestamps, ms_now)
                        THEN [pc |-> "loop", queries |-> QueriesPerCall]
                        ELSE [pc |-> "done", queries |-> 0]]
    /\ UNCHANGED <<ms_now, ms_requests, slackVars,
                   prioVars, qualVars, mergeVars, reqVars, helpVars>>

\* The head of a loop iteration: break when _can_search() fails or no query
\* is left, otherwise the request is sent and the coroutine awaits it
SendRequest(c) ==
    /\ ms_calls[c].pc = "loop"
    /\ ms_search_timestamps' = PrunedTimestamps(ms_search_timestamps, ms_now)
    /\ IF ms_calls[c].queries > 0 /\ CanSearch(ms_search_timestamps, ms_now)
       THEN /\ ms_requests' = Append(ms_requests, [by |-> c, at |-> ms_now])
            /\ ms_calls' = [ms_calls EXCEPT ![c].pc = "awaiting"]
       ELSE /\ ms_requests' = ms_requests
            /\ ms_calls' = [ms_calls EXCEPT ![c].pc = "done"]
    /\ UNCHANGED <<ms_now, slackVars, prioVars, qualVars, mergeVars, reqVars, helpVars>>

\* The rest of the iteration: the response is parsed and
\* _search_timestamps.append(time.time()) runs, or anything in the try
\* block raised and `except Exception: continue` skips the append
ReceiveResponse(c) ==
    /\ ms_calls[c].pc = "awaiting"
    /\ \E ok \in BOOLEAN :
            ms_search_timestamps' =
                IF ok THEN Append(ms_search_timestamps, ms_now) ELSE ms_search_timestamps
    /\ ms_calls' = [ms_calls EXCEPT ![c].pc = "loop", ![c].queries = @ - 1]
    /\ UNCHANGED <<ms_now, ms_requests, slackVars,
                   prioVars, qualVars, mergeVars, reqVars, helpVars>>

ResearchNext ==
    \/ ClockTick
    \/ \E c \in FetchCalls :
        \/ StartFetch(c)
        \/ SendRequest(c)
        \/ ReceiveResponse(c)

SpecResearch == ResearchInit /\ [][ResearchNext]_vars

----------------------------------------------------------------------------
(* Claims about the hourly budget, checked under SpecResearch *)

\* The requests sent in the SearchWindow seconds that start at time t
SentInWindow(t) ==
    {i \in 1..Len(ms_requests) : ms_requests[i].at >= t /\ ms_requests[i].at < t + SearchWindow}

\* C27: in every window of 3600 seconds the SerpAPI requests sent by the
\* calls of fetch_research_inputs on one service, failed ones included, are
\* at most max_searches_per_hour.
C27_RequestsWithinBudget ==
    \A i \in 1..Len(ms_requests) :
        Cardinality(SentInWindow(ms_requests[i].at)) <= MaxSearchesPerHour

\* What the bookkeeping does keep: a request is sent only when fewer than
\* max_searches_per_hour successes are recorded, so the list never holds
\* more than the budget and one success for each other call in flight.
C27_RecordedWithinBudget ==
    Len(PrunedTimestamps(ms_search_timestamps, ms_now)) <=
        MaxSearchesPerHour + MaxFetchCalls - 1


\* ---------------------------------------------------------------------
\* The floors of the rule-based dimensions
\* ---------------------------------------------------------------------

\* The rules that fired for the arguments of the call
InputRules ==
    QualityRules(q_input.summary, q_input.user_story, q_input.acceptance_criteria,
                 q_input.dependencies, q_input.metrics, q_input.non_functional_reqs)

\* C28: the clamps of the five rule-based dimensions never change a value:
\* each raw dimension is already in [0,100] and is the reported one, with
\* clarity >= 65, invest >= 47, testability >= 54, measurability >= 72 and
\* scope >= 60; ac_too_few and ac_too_many never fire together, and
\* quality_score is never below 54.5.
C28_ClampsNeverBind ==
    q_result.op = "evaluate" =>
        LET out == q_result.out
            b == out.quality_breakdown
            r == InputRules
        IN  /\ ClarityRaw(r) \in 65..100 /\ b.clarity = 10 * ClarityRaw(r)
            /\ InvestRaw(r) \in 47..100 /\ b.invest = 10 * InvestRaw(r)
            /\ TestabilityRaw(r) \in 54..100 /\ b.testability = 10 * TestabilityRaw(r)
            /\ MeasurabilityRaw(r) \in 72..100
            /\ b.measurability = 10 * MeasurabilityRaw(r)
            /\ ScopeRaw(r) \in 60..100 /\ b.scope = 10 * ScopeRaw(r)
            /\ ~({"ac_too_few", "ac_too_many"} \subseteq WarningCodes(out))
            /\ out.quality_score >= 545

\* Every dimension but scope at its floor, no evidence: the score is 54.5
C28_Witness ==
    /\ q_result.op = "evaluate"
    /\ LET b == q_result.out.quality_breakdown
       IN  /\ b.clarity = 650 /\ b.invest = 470 /\ b.testability = 540
           /\ b.measurability = 720 /\ b.scope = 700
    /\ "ac_too_few" \in WarningCodes(q_result.out)
    /\ q_result.out.quality_score = 545


\* ---------------------------------------------------------------------
\* One structured metric through sanitisation and normalisation
\* ---------------------------------------------------------------------

\* The draft call returned the story with one structured metric and the
\* first evaluation of the sanitised story was made
OneMetricEvaluated ==
    /\ r_draft_payload = OneMetricPayload
    /\ r_pc \in {"evaluated", "respond", "done"}

\* _compute_user_demand_signal of the request with the given metric list
DemandWith(generated_metrics) ==
    compute_user_demand_signal(r_item.objective, r_item.context,
                               r_item.success_metrics, generated_metrics,
                               r_item.target_user)

\* C29: a draft whose only metric is one structured record with a name and
\* a target gives a canonical metric list of one entry, so evaluate_story_v2
\* reports metrics_thin and the user-demand signal gets no +0.20.
C29_OneMetricOneEntry ==
    OneMetricEvaluated =>
        /\ Len(r_first_evaluation.metrics) = 1
        /\ "metrics_thin" \in WarningCodes(r_first_evaluation.quality_eval)
        /\ DemandWith(r_first_evaluation.metrics) = DemandWith(<<"Conversion rate">>)

\* What the code does with that draft: the rendered text and the bare name
\* both enter the list, metrics_thin is not reported and the bonus is given
C29_OneMetricCountedTwice ==
    OneMetricEvaluated =>
        /\ r_first_draft["metrics"].v = <<PyStr("Conversion rate - target 5%")>>
        /\ Len(r_first_draft["structured_metrics"].v) = 1
        /\ r_first_evaluation.metrics = <<"Conversion rate - target 5%", "Conversion rate">>
        /\ Len(r_first_evaluation.structured_metrics) = 1
        /\ "metrics_thin" \notin WarningCodes(r_first_evaluation.quality_eval)
        /\ DemandWith(r_first_evaluation.metrics)
               = DemandWith(<<"Conversion rate">>) + 20


----------------------------------------------------------------------------
(* main.py, _generate_and_post_preview: the task that slack_interactions    *)
(* starts with asyncio.create_task for a submitted modal.  The whole body   *)
(* is inside one try; every exception ends in post_error.  The tasks of     *)
(* several submissions yield to each other at their awaits.                 *)

\* The submissions handled at the same time, at most
MaxTasks == 2

PreviewTasks == 1..MaxTasks

\* The parameters of SlackService.post_preview after self; none has a default
PostPreviewParameters ==
    {"channel_id", "summary", "user_story", "acceptance_criteria",
     "quality_score", "moscow_priority", "session_id"}

\* The keywords of the call of post_preview in _generate_and_post_preview
PostPreviewKeywords ==
    {"channel_id", "summary", "user_story", "acceptance_criteria",
     "quality_score", "moscow_priority", "priority_label",
     "execution_readiness_score", "session_id"}

\* Python's binding of a call made with keywords only to a function without
\* **kwargs: a keyword that is no parameter, or a parameter left without a
\* value, raises TypeError before the body runs
BindKeywords(parameters, keywords) ==
    IF keywords \subseteq parameters /\ parameters \subseteq keywords
    THEN "bound" ELSE "TypeError"

\* A task before it runs
NewTask ==
    [pc |-> "new", generated |-> FALSE, session |-> Unset, call_failed |-> FALSE,
     exc |-> ""]

SlackPreviewInit ==
    /\ s_sessions = <<>>
    /\ s_reqs = [t \in PreviewTasks |-> NewTask]
    /\ s_jira_calls = <<>>
    /\ s_posts = <<>>
    /\ ResearchIdle
    /\ PriorityIdle
    /\ QualityIdle
    /\ MergeIdle
    /\ RequestIdle
    /\ HelperIdle

\* Lines 240-341: generate_story_v2, the scoring and preview_payload; an
\* exception (a key missing from input_payload, say) goes to the handler
GenerateAndScore(t) ==
    /\ s_reqs[t].pc = "new"
    /\ \E ok \in BOOLEAN :
            s_reqs' = [s_reqs EXCEPT ![t].pc = IF ok THEN "scored" ELSE "except",
                                     ![t].generated = ok,
                                     ![t].exc = IF ok THEN "" ELSE "generation"]
    /\ UNCHANGED <<s_sessions, s_jira_calls, s_posts, researchVars,
                   prioVars, qualVars, mergeVars, reqVars, helpVars>>

\* Lines 343-348: session = await slack_service.create_session(...), which
\* stores a row with status GENERATED, or raises when the database does
CreateSession(t) ==
    /\ s_reqs[t].pc = "scored"
    /\ \E ok \in BOOLEAN :
            IF ok
            THEN /\ s_sessions' = Append(s_sessions, GeneratedRow)
                 /\ s_reqs' = [s_reqs EXCEPT ![t].pc = "created",
                                             ![t].session =
                                                [id |-> Len(s_sessions) + 1]]
            ELSE /\ s_reqs' = [s_reqs EXCEPT ![t].pc = "except",
                                             ![t].call_failed = TRUE,
                                             ![t].exc = "database"]
                 /\ UNCHANGED s_sessions
    /\ UNCHANGED <<s_jira_calls, s_posts, researchVars,
                   prioVars, qualVars, mergeVars, reqVars, helpVars>>

\* Lines 350-360: await slack_service.post_preview(...): the keywords are
\* bound to the parameters, and only then the message is posted
PostPreview(t) ==
    /\ s_reqs[t].pc = "created"
    /\ IF BindKeywords(PostPreviewParameters, PostPreviewKeywords) = "TypeError"
       THEN /\ s_reqs' = [s_reqs EXCEPT ![t].pc = "except", ![t].exc = "TypeError"]
            /\ UNCHANGED s_posts
       ELSE \E ok \in BOOLEAN :
                IF ok
                THEN /\ s_posts' = Append(s_posts,
                                          [kind |-> "preview", by |-> t,
                                           session_id |-> IntText(s_reqs[t].session.id)])
                     /\ s_reqs' = [s_reqs EXCEPT ![t].pc = "done"]
                ELSE /\ s_reqs' = [s_reqs EXCEPT ![t].pc = "except",
                                                 ![t].call_failed = TRUE,
                                                 ![t].exc = "slack"]
                     /\ UNCHANGED s_posts
    /\ UNCHANGED <<s_sessions, s_jira_calls, researchVars,
                   prioVars, qualVars, mergeVars, reqVars, helpVars>>

\* Lines 361-362: except Exception as exc: await slack_service.post_error;
\* a post that raises ends the task with that exception
PostError(t) ==
    /\ s_reqs[t].pc = "except"
    /\ \E ok \in BOOLEAN :
            IF ok
            THEN /\ s_posts' = Append(s_posts, [kind |-> "error", by |-> t,
                                                message |-> s_reqs[t].exc])
                 /\ s_reqs' = [s_reqs EXCEPT ![t].pc = "done"]
            ELSE /\ s_reqs' = [s_reqs EXCEPT ![t].pc = "raised",
                                             ![t].call_failed = TRUE]
                 /\ UNCHANGED s_posts
    /\ UNCHANGED <<s_sessions, s_jira_calls, researchVars,
                   prioVars, qualVars, mergeVars, reqVars, helpVars>>

SlackPreviewNext ==
    \E t \in PreviewTasks :
        \/ GenerateAndScore(t)
        \/ CreateSession(t)
        \/ PostPreview(t)
        \/ PostError(t)

SpecSlackPreview == SlackPreviewInit /\ [][SlackPreviewNext]_vars

\* The posts of a kind that a task made
PostsBy(t, kind) == {i \in 1..Len(s_posts) : s_posts[i].by = t /\ s_posts[i].kind = kind}

\* The task is over, its generation and scoring succeeded and none of its
\* Slack or database calls failed
CleanRun(t) ==
    /\ s_reqs[t].pc \in {"done", "raised"}
    /\ s_reqs[t].generated
    /\ ~s_reqs[t].call_failed

\* C30: when generation and scoring succeed and no Slack or database call
\* fails, the task creates one session with status GENERATED, posts one
\* preview carrying that session's id and posts no error, so that its
\* session is not left stored without its preview.
C30_PreviewFollowsSession ==
    \A t \in PreviewTasks :
        CleanRun(t) =>
            /\ s_reqs[t].session # Unset
            /\ s_sessions[s_reqs[t].session.id].status = "generated"
            /\ Cardinality(PostsBy(t, "preview")) = 1
            /\ \A i \in PostsBy(t, "preview") :
                    s_posts[i].session_id = IntText(s_reqs[t].session.id)
            /\ PostsBy(t, "error") = {}

\* What the code does: the call of post_preview raises TypeError for the
\* keywords priority_label and execution_readiness_score, so no preview is
\* ever posted, and a clean run ends with its session stored and one error
\* message
C30_PreviewNeverPosted ==
    /\ \A i \in 1..Len(s_posts) : s_posts[i].kind # "preview"
    /\ \A t \in PreviewTasks :
            CleanRun(t) =>
                /\ s_reqs[t].session # Unset
                /\ s_sessions[s_reqs[t].session.id].status = "generated"
                /\ s_reqs[t].exc = "TypeError"
                /\ Cardinality(PostsBy(t, "error")) = 1

\* A clean run that is over
C30_CleanRunReached == \E t \in PreviewTasks : CleanRun(t)

====
